---- MODULE Spec2Model ----
(***************************************************************************)
(* Subscription and fan-out core of glow-server: nonce issuer, connection  *)
(* authenticator, subscription registry, queue-decoupled broadcaster and   *)
(* TTL sweeper, modelled as handlers acting on three DynamoDB tables, one  *)
(* SQS queue and the API Gateway connection set.                           *)
(*                                                                         *)
(* A DynamoDB table is the set of its items; the primary key of a table    *)
(* decides which item a Put replaces and a Delete removes.  A handler is   *)
(* split at its awaits on the store where a claim is about interleavings.  *)
(***************************************************************************)
EXTENDS Integers, Sequences, FiniteSets, TLC

VARIABLES
    nowMs,          \* Date.now(), milliseconds
    nonceTable,     \* WebsocketNonceTable: items {wallet, nonce, ttl}, key wallet
    nextNonce,      \* randomUUID(): the next never-used nonce value
    attempt,        \* $connect invocations, one per connection id
    alive,          \* connection ids whose transport is open at API Gateway
    closed,         \* closed connections whose $disconnect event is pending
    priceTable,     \* PriceConnectionsTable: items {connectionId, token, ttl}
    balanceTable,   \* BalanceConnectionsTable: items {connectionId, wallet, ttl}
    regLog,         \* history: the last two registry handler calls
    queue,          \* BroadcastQueue: bodies of the visible messages
    worker,         \* the broadcast worker's invocation
    balancePass,    \* the balance webhook's invocation
    webhook,        \* history: the last price webhook call and its answer
    sweeper,        \* the TTL sweeper's invocation
    lastOp,         \* history: each connection's last completed registry call
    subscribing,    \* subscribePrice invocations in flight, one per connection
    room,           \* BroadcastRoom actors, one per token: connections, thread
    edgeOpen,       \* edge sockets on which a send succeeds
    edgeClosing,    \* edge sockets whose close event the room has yet to handle
    inbox,          \* client messages the room has yet to handle, per socket
    received,       \* what each edge socket has been sent, in order
    publish         \* POST /broadcast/:token requests

authVars == <<nonceTable, nextNonce, attempt>>
connVars == <<alive, closed>>
regVars == <<priceTable, balanceTable>>
fanVars == <<queue, worker, balancePass>>
histVars == <<regLog, webhook, lastOp>>
sweepVars == <<sweeper>>
callVars == <<subscribing>>
edgeVars == <<room, edgeOpen, edgeClosing, inbox, received, publish>>

vars == <<nowMs, authVars, connVars, regVars, fanVars, histVars, sweepVars,
          callVars, edgeVars>>

----------------------------------------------------------------------------
(* Bounds of the model *)

MaxNonces == 2          \* nonces issued in one behaviour
MaxTicks == 2           \* clock advances in one behaviour

(* Program constants *)

NonceTtlSeconds == 600
SubscriptionTtlSeconds == 3600
TickMs == 3600000
StartMs == 500

Wallets == {"W1", "W2"}
Tokens == {"T1", "T2"}
Conns == {"c1", "c2", "c3"}
AuthConns == {"c1", "c2"}

----------------------------------------------------------------------------
(* The key-value store, as the handlers use it *)

\* Variant of PutItem that appends the item and replaces none (C7 is
\* sensitive to it).
PutItemAppends(rows, hashKey, item) ==
    rows \cup {item}

\* PutCommand: the item replaces the item with the same primary key, if any.
PutItem(rows, hashKey, item) ==
    {r \in rows : r[hashKey] # item[hashKey]} \cup {item}

\* Variant of DeleteItem that removes nothing (C3 is sensitive to it).
DeleteItemKeeps(rows, hashKey, k) ==
    rows

\* Variant of DeleteItem on a table that keeps one shared value: the Delete
\* removes every item (C17 is sensitive to it).
DeleteItemClears(rows, hashKey, k) ==
    {}

\* DeleteCommand without a condition: removes the item with that key, if any.
DeleteItem(rows, hashKey, k) ==
    {r \in rows : r[hashKey] # k}

\* GetCommand: the item with that key (a set of zero or one item).
GetItem(rows, hashKey, k) ==
    {r \in rows : r[hashKey] = k}

\* Math.floor(Date.now() / 1000)
UnixSeconds(ms) == ms \div 1000

----------------------------------------------------------------------------
(* Nonce issuer: GET /login/nonce *)

\* Variant of the nonce item that lives as long as a subscription row (C21
\* is sensitive to it).
NonceItemLongLived(wallet, nonce, ms) ==
    [wallet |-> wallet, nonce |-> nonce,
     ttl |-> UnixSeconds(ms) + SubscriptionTtlSeconds]

\* The item the handler puts (lines 21-32).
NonceItem(wallet, nonce, ms) ==
    [wallet |-> wallet, nonce |-> nonce, ttl |-> UnixSeconds(ms) + NonceTtlSeconds]

\* generateNonce handler with a wallet parameter; a Put that throws (putOk
\* false) is answered 500.
GenerateNonce(wallet, putOk) ==
    /\ nextNonce <= MaxNonces
    /\ nextNonce' = nextNonce + 1
    /\ nonceTable' = IF putOk
                     THEN PutItem(nonceTable, "wallet",
                                  NonceItem(wallet, nextNonce, nowMs))
                     ELSE nonceTable
    /\ UNCHANGED <<nowMs, attempt, connVars, regVars, fanVars, histVars, sweepVars, callVars, edgeVars>>

----------------------------------------------------------------------------
(* Connection authenticator: the $connect handler *)

NoParam == ""           \* a header / query parameter that is absent
NoMessage == 0

\* A signature as the client presents it: absent, not a 64-byte value, or a
\* detached ed25519 signature made by signer's key over msg.
NoSignature == [kind |-> "missing", signer |-> "", msg |-> 0]
BadSignature == [kind |-> "malformed", signer |-> "", msg |-> 0]
Sign(signer, msg) == [kind |-> "sig", signer |-> signer, msg |-> msg]

\* nacl.sign.detached.verify(messageBytes, signatureBytes, publicKey)
SignatureVerifies(wallet, message, signature) ==
    /\ signature.signer = wallet
    /\ signature.msg = message

IdleAttempt ==
    [pc |-> "idle", wallet |-> NoParam, message |-> NoMessage,
     signature |-> NoSignature, found |-> {}, verify |-> "notrun",
     replay |-> FALSE, status |-> 0, error |-> ""]

Return(a, status, error) ==
    [a EXCEPT !.pc = "done", !.status = status, !.error = error]

\* Is some earlier attempt already admitted with this wallet and nonce?
AlreadyAdmitted(wallet, message) ==
    \E o \in Conns : /\ attempt[o].status = 200
                     /\ attempt[o].wallet = wallet
                     /\ attempt[o].message = message

\* Lines 11-24: read the parameters; any of them missing is a 401.
ConnectStart(c, wallet, signature, message) ==
    /\ attempt[c].pc = "idle"
    /\ LET a == [attempt[c] EXCEPT !.wallet = wallet, !.message = message,
                                   !.signature = signature,
                                   !.replay = AlreadyAdmitted(wallet, message)]
       IN attempt' = [attempt EXCEPT ![c] =
              IF wallet = NoParam \/ signature.kind = "missing" \/ message = NoMessage
              THEN Return(a, 401, "Missing authentication parameters")
              ELSE [a EXCEPT !.pc = "get"]]
    /\ UNCHANGED <<nowMs, nonceTable, nextNonce, connVars, regVars, fanVars, histVars, sweepVars, callVars, edgeVars>>

\* Lines 41-65: the signature gate, run on a found and matching nonce.
VerifyOutcome(a) ==
    IF a.signature.kind = "malformed" THEN "threw"
    ELSE IF SignatureVerifies(a.wallet, a.message, a.signature) THEN "true"
    ELSE "false"

\* Variant of the nonce gate that only asks for a stored nonce (C5 is
\* sensitive to it).
NonceFound(found, message) ==
    found # {}

\* Variant of the nonce gate that lets every attempt through to the
\* signature gate (C18 is sensitive to it).
NonceGateOpen(found, message) ==
    TRUE

\* Lines 34-39: the nonce gate.
NonceMatches(found, message) ==
    /\ found # {}
    /\ \A r \in found : r.nonce = message

\* Variant of ConnectGet that deletes the nonce as soon as it has matched,
\* before the signature is verified (C20 is sensitive to it).
ConnectGetConsumes(c, getOk) ==
    /\ attempt[c].pc = "get"
    /\ LET found == GetItem(nonceTable, "wallet", attempt[c].wallet)
            a == [attempt[c] EXCEPT !.found = found]
            v == VerifyOutcome(a)
        IN /\ attempt' = [attempt EXCEPT ![c] =
                 IF ~getOk THEN Return(attempt[c], 500, "Internal server error")
                 ELSE IF ~NonceMatches(found, a.message)
                      THEN Return(a, 401, "Invalid or expired nonce")
                 ELSE IF v = "false"
                      THEN Return([a EXCEPT !.verify = v], 401, "Invalid signature")
                 ELSE IF v = "threw"
                      THEN Return([a EXCEPT !.verify = v], 401,
                                  "Invalid signature format")
                 ELSE [a EXCEPT !.verify = v, !.pc = "delete"]]
           /\ nonceTable' = IF getOk /\ NonceMatches(found, a.message)
                            THEN DeleteItem(nonceTable, "wallet", attempt[c].wallet)
                            ELSE nonceTable
    /\ UNCHANGED <<nowMs, nextNonce, connVars, regVars, fanVars, histVars, sweepVars, callVars, edgeVars>>

\* Lines 26-65: the Get on the nonce table answers (or throws), then the
\* nonce gate and the signature gate run without a further await.
ConnectGet(c, getOk) ==
    /\ attempt[c].pc = "get"
    /\ LET found == GetItem(nonceTable, "wallet", attempt[c].wallet)
            a == [attempt[c] EXCEPT !.found = found]
            v == VerifyOutcome(a)
        IN attempt' = [attempt EXCEPT ![c] =
              IF ~getOk THEN Return(attempt[c], 500, "Internal server error")
              ELSE IF ~NonceMatches(found, a.message)
                   THEN Return(a, 401, "Invalid or expired nonce")
              ELSE IF v = "false"
                   THEN Return([a EXCEPT !.verify = v], 401, "Invalid signature")
              ELSE IF v = "threw"
                   THEN Return([a EXCEPT !.verify = v], 401, "Invalid signature format")
              ELSE [a EXCEPT !.verify = v, !.pc = "delete"]]
    /\ UNCHANGED <<nowMs, nonceTable, nextNonce, connVars, regVars, fanVars, histVars, sweepVars, callVars, edgeVars>>

\* Lines 67-88: the unconditional Delete of the wallet's nonce, then 200; a
\* Delete that throws is caught by the outer catch and answered 500.
ConnectDelete(c, deleteOk) ==
    /\ attempt[c].pc = "delete"
    /\ IF deleteOk
        THEN /\ nonceTable' = DeleteItem(nonceTable, "wallet", attempt[c].wallet)
             /\ attempt' = [attempt EXCEPT ![c] = Return(attempt[c], 200, "")]
             /\ alive' = alive \cup {c}
        ELSE /\ attempt' = [attempt EXCEPT ![c] =
                                Return(attempt[c], 500, "Internal server error")]
             /\ UNCHANGED <<nonceTable, alive>>
    /\ UNCHANGED <<nowMs, nextNonce, closed, regVars, fanVars, histVars, sweepVars, callVars, edgeVars>>

----------------------------------------------------------------------------
(* The clock and the transport *)

\* Time passes.
Tick ==
    /\ nowMs < StartMs + MaxTicks * TickMs
    /\ nowMs' = nowMs + TickMs
    /\ UNCHANGED <<authVars, connVars, regVars, fanVars, histVars, sweepVars, callVars, edgeVars>>

\* The transport of a connection closes or drops; API Gateway then runs the
\* $disconnect route, unless the event is lost (delivered false).
Close(c, delivered) ==
    /\ c \in alive
    /\ alive' = alive \ {c}
    /\ closed' = IF delivered THEN closed \cup {c} ELSE closed
    /\ UNCHANGED <<nowMs, authVars, regVars, fanVars, histVars, sweepVars, callVars, edgeVars>>

----------------------------------------------------------------------------
(* Subscription registry: subscribePrice, subscribeBalance, $disconnect.   *)
(* These actions leave the history variables to the specification.         *)

NoTopic == ""

\* The item the subscribePrice handler puts (lines 27-38).
PriceItem(c, token, ms) ==
    [connectionId |-> c, token |-> token,
     ttl |-> UnixSeconds(ms) + SubscriptionTtlSeconds]

\* The item the subscribeBalance handler puts.
BalanceItem(c, wallet, ms) ==
    [connectionId |-> c, wallet |-> wallet,
     ttl |-> UnixSeconds(ms) + SubscriptionTtlSeconds]

\* subscribePrice handler: a body without a token is a ZodError (400, nothing
\* written); else the row is put, then SUBSCRIPTION_CONFIRMED is posted to the
\* connection; a throwing Put or post is answered 400.
SubscribePrice(c, token, putOk) ==
    /\ c \in alive
    /\ priceTable' = IF token # NoTopic /\ putOk
                     THEN PutItem(priceTable, "connectionId",
                                  PriceItem(c, token, nowMs))
                     ELSE priceTable
    /\ UNCHANGED <<nowMs, authVars, connVars, balanceTable, fanVars, sweepVars, callVars, edgeVars>>

\* The handler's answer (lines 57-60 and 86-89).
SubscribeStatus(token, putOk, sendOk) ==
    IF token # NoTopic /\ putOk /\ sendOk THEN 200 ELSE 400

\* subscribeBalance handler, on the balance table keyed by connectionId.
SubscribeBalance(c, wallet, putOk) ==
    /\ c \in alive
    /\ balanceTable' = IF wallet # NoTopic /\ putOk
                       THEN PutItem(balanceTable, "connectionId",
                                    BalanceItem(c, wallet, nowMs))
                       ELSE balanceTable
    /\ UNCHANGED <<nowMs, authVars, connVars, priceTable, fanVars, sweepVars, callVars, edgeVars>>

\* Variant of Disconnect with both Deletes in one try: a throwing Delete on
\* the price table skips the Delete on the balance table (C15 is sensitive
\* to it).
DisconnectOneTry(c, priceOk, balanceOk) ==
    /\ c \in closed
    /\ closed' = closed \ {c}
    /\ priceTable' = IF priceOk
                     THEN DeleteItem(priceTable, "connectionId", c)
                     ELSE priceTable
    /\ balanceTable' = IF priceOk /\ balanceOk
                       THEN DeleteItem(balanceTable, "connectionId", c)
                       ELSE balanceTable
    /\ UNCHANGED <<nowMs, authVars, alive, fanVars, sweepVars, callVars, edgeVars>>

\* $disconnect handler: one Delete per subscription table, each in its own
\* try/catch; always answers 200.
Disconnect(c, priceOk, balanceOk) ==
    /\ c \in closed
    /\ closed' = closed \ {c}
    /\ priceTable' = IF priceOk
                     THEN DeleteItem(priceTable, "connectionId", c)
                     ELSE priceTable
    /\ balanceTable' = IF balanceOk
                       THEN DeleteItem(balanceTable, "connectionId", c)
                       ELSE balanceTable
    /\ UNCHANGED <<nowMs, authVars, alive, fanVars, sweepVars, callVars, edgeVars>>

\* Variant of ResolvePrice that ignores the token (C1 is sensitive to it).
ResolvePriceAnyToken(rows, token) ==
    {r.connectionId : r \in rows}

\* QueryCommand on the byToken index, mapped to connection ids.
ResolvePrice(rows, token) ==
    {r.connectionId : r \in {x \in rows : x.token = token}}

\* QueryCommand on the byWallet index, mapped to connection ids.
ResolveBalance(rows, wallet) ==
    {r.connectionId : r \in {x \in rows : x.wallet = wallet}}

\* History: the last two registry handler calls.
NoCall == [op |-> "none", conn |-> "", topic |-> "", at |-> 0, stored |-> FALSE,
           status |-> 0, faults |-> {}]

LogCall(op, c, topic, stored, status) ==
    regLog' = [last |-> [op |-> op, conn |-> c, topic |-> topic,
                         at |-> UnixSeconds(nowMs), stored |-> stored,
                         status |-> status, faults |-> {}],
               prev |-> regLog.last]

----------------------------------------------------------------------------
(* Publisher: the price webhook (POST /webhook/price) *)

MaxQueue == 1           \* visible messages on the broadcast queue
MaxBatch == 1           \* records handed to one worker invocation
MaxReceiveCount == 3
Prices == {123}
Timestamps == {1000}

PriceMessage(token, price, timestamp) ==
    [type |-> "PRICE_UPDATE", token |-> token, price |-> price,
     timestamp |-> timestamp]

\* The body broadcastViaSQS enqueues (lines 140-158): no connection ids.
QueueBody(message) == [connectionIds |-> {}, message |-> message]

\* Variant of SqsSends without the fallback: with the edge engine configured
\* the queue is never used (C10 is sensitive to it).
SqsSendsNoFallback(edgeConfigured, edge, sqs1Ok, sqs2Ok) ==
    IF edgeConfigured THEN 0
    ELSE IF sqs1Ok THEN 1
    ELSE 0

\* How many of the handler's calls of broadcastViaSQS succeed.  With the edge
\* engine configured (line 109) the queue is used only after a non-ok answer
\* (line 125, and again from the catch of line 129 when that send throws) or
\* after a throwing fetch (line 132); without it, line 136.
SqsSends(edgeConfigured, edge, sqs1Ok, sqs2Ok) ==
    IF edgeConfigured /\ edge = "ok" THEN 0
    ELSE IF sqs1Ok THEN 1
    ELSE IF edgeConfigured /\ edge = "notok" /\ sqs2Ok THEN 1
    ELSE 0

\* Does the handler reach its return of line 160?
PublishReturns(edgeConfigured, edge, sqs1Ok, sqs2Ok) ==
    \/ edgeConfigured /\ edge = "ok"
    \/ sqs1Ok
    \/ edgeConfigured /\ edge = "notok" /\ sqs2Ok

\* The handler's answer: 401 on a wrong bearer, 400 on an invalid payload,
\* 500 when the time-series Put or the last queue send throws, else 200.
PublishStatus(authOk, payloadOk, putOk, edgeConfigured, edge, sqs1Ok, sqs2Ok) ==
    IF ~authOk THEN 401
    ELSE IF ~payloadOk THEN 400
    ELSE IF ~putOk THEN 500
    ELSE IF PublishReturns(edgeConfigured, edge, sqs1Ok, sqs2Ok) THEN 200
    ELSE 500

\* Variant of the price webhook that does not check the Authorization header
\* (C36 is sensitive to it).
HeliusPriceUnchecked(authOk, payloadOk, putOk, message, edgeConfigured, edge, sqs1Ok, sqs2Ok) ==
    /\ Len(queue) < MaxQueue
    /\ queue' = IF payloadOk /\ putOk
                   /\ SqsSends(edgeConfigured, edge, sqs1Ok, sqs2Ok) = 1
                THEN Append(queue, [body |-> QueueBody(message), receives |-> 0,
                                    fanned |-> 0])
                ELSE queue
    /\ UNCHANGED <<nowMs, authVars, connVars, regVars, worker, balancePass, sweepVars, callVars, edgeVars>>

\* Variant of the price webhook that hands the tick to the queue without
\* waiting for the time-series write (C37 is sensitive to it).
HeliusPriceBroadcastFirst(authOk, payloadOk, putOk, message, edgeConfigured, edge, sqs1Ok, sqs2Ok) ==
    /\ Len(queue) < MaxQueue
    /\ queue' = IF authOk /\ payloadOk
                   /\ SqsSends(edgeConfigured, edge, sqs1Ok, sqs2Ok) = 1
                THEN Append(queue, [body |-> QueueBody(message), receives |-> 0,
                                    fanned |-> 0])
                ELSE queue
    /\ UNCHANGED <<nowMs, authVars, connVars, regVars, worker, balancePass, sweepVars, callVars, edgeVars>>

\* heliusPrice handler, whole.  edge is the outcome of the fetch of the edge
\* worker: "ok", "notok" (a non-2xx answer) or "threw".
HeliusPrice(authOk, payloadOk, putOk, message, edgeConfigured, edge, sqs1Ok, sqs2Ok) ==
    /\ Len(queue) < MaxQueue
    /\ queue' = IF authOk /\ payloadOk /\ putOk
                   /\ SqsSends(edgeConfigured, edge, sqs1Ok, sqs2Ok) = 1
                THEN Append(queue, [body |-> QueueBody(message), receives |-> 0,
                                    fanned |-> 0])
                ELSE queue
    /\ UNCHANGED <<nowMs, authVars, connVars, regVars, worker, balancePass, sweepVars, callVars, edgeVars>>

\* History: the last call of the price webhook, its answer, the outcome of
\* its edge call and the bodies it put on the queue.
NoWebhook == [status |-> 0, message |-> PriceMessage("", 0, 0), stored |-> FALSE,
              edgeConfigured |-> FALSE, edge |-> "notcalled", queued |-> <<>>]

LogWebhook(authOk, payloadOk, putOk, message, edgeConfigured, edge, sqs1Ok, sqs2Ok) ==
    LET reached == authOk /\ payloadOk /\ putOk IN
    webhook' =
        [status |-> PublishStatus(authOk, payloadOk, putOk, edgeConfigured,
                                  edge, sqs1Ok, sqs2Ok),
         message |-> message,
         stored |-> authOk /\ payloadOk /\ putOk,
         edgeConfigured |-> edgeConfigured,
         edge |-> IF reached /\ edgeConfigured THEN edge ELSE "notcalled",
         queued |-> [k \in 1 .. Len(queue') - Len(queue) |->
                        queue'[Len(queue) + k].body]]

----------------------------------------------------------------------------
(* Engine A: the broadcast worker and the balance webhook *)

NoOutcomes == [c \in Conns |-> <<>>]

\* One fan-out pass: the targets resolved, the sends not yet settled, and
\* the outcomes of the sends attempted to each connection, in order.
IdlePass ==
    [pc |-> "idle", topic |-> NoTopic, targets |-> {}, pending |-> {},
     outcome |-> NoOutcomes, status |-> 0]

IdleWorker == [pass |-> IdlePass, batch |-> <<>>, i |-> 0]

\* PostToConnectionCommand: 410 on a connection that is gone; on a live one
\* the post succeeds or fails with another error.
SendOutcomes(c) == IF c \in alive THEN {"ok", "error"} ELSE {"gone"}

\* The pass after its targets are resolved (lines 45-65 start every send).
StartPass(topic, targets) ==
    [pc |-> "send", topic |-> topic, targets |-> targets, pending |-> targets,
     outcome |-> NoOutcomes, status |-> 0]

\* Variant of SettleSend in which a failed send abandons the sends still
\* pending (C14 is sensitive to it).
SettleSendAborts(pass, c, o) ==
    [pass EXCEPT !.pending = IF o = "ok" THEN @ \ {c} ELSE {},
                 !.outcome[c] = Append(@, o)]

\* One PostToConnection of the pass settles with outcome o.
SettleSend(pass, c, o) ==
    [pass EXCEPT !.pending = @ \ {c}, !.outcome[c] = Append(@, o)]

\* The Lambda poller hands the worker the first n visible messages as the
\* records of one event.
WorkerInvokeBatch(n) ==
    /\ worker.pass.pc = "idle"
    /\ worker.batch = <<>>
    /\ balancePass.pc \in {"idle", "done"}
    /\ n <= Len(queue)
    /\ worker' = [pass |-> [IdlePass EXCEPT !.pc = "resolve"],
                  batch |-> [k \in 1 .. n |->
                                [queue[k] EXCEPT !.receives = @ + 1]],
                  i |-> 1]
    /\ queue' = SubSeq(queue, n + 1, Len(queue))
    /\ UNCHANGED <<nowMs, authVars, connVars, regVars, balancePass, histVars, sweepVars, callVars, edgeVars>>

\* The Lambda poller hands the worker a batch of visible messages.
WorkerInvoke == \E n \in 1 .. MaxBatch : WorkerInvokeBatch(n)

\* Variant of the redrive policy without a receive limit (C27 is sensitive
\* to it).
RedeliveredForever(batch) == batch

\* The records of a failed invocation become visible again, unless they have
\* been received MaxReceiveCount times (then they go to the dead-letter queue).
Redelivered(batch) ==
    SelectSeq(batch, LAMBDA e : e.receives < MaxReceiveCount)

AfterRecord(w) ==
    IF w.i < Len(w.batch)
    THEN [w EXCEPT !.pass = [IdlePass EXCEPT !.pc = "resolve"], !.i = @ + 1]
    ELSE IdleWorker

\* Lines 13-32: the record's connection ids, or the subscribers of its token.
WorkerTargets(body, rows) ==
    IF body.connectionIds # {}
    THEN body.connectionIds
    ELSE ResolvePrice(rows, body.message.token)

\* Variant of the failure path that puts back only the failing record and
\* the records after it (C35 is sensitive to it).
WorkerResolvePartial(queryOk) ==
    /\ worker.pass.pc = "resolve"
    /\ LET body == worker.batch[worker.i].body
           targets == WorkerTargets(body, priceTable)
       IN
       IF body.connectionIds = {} /\ ~queryOk
       THEN /\ worker' = IdleWorker
            /\ queue' = queue \o Redelivered(SubSeq(worker.batch, worker.i,
                                                    Len(worker.batch)))
       ELSE /\ worker' = IF targets = {}
                         THEN AfterRecord(worker)
                         ELSE [worker EXCEPT !.pass =
                                  StartPass(body.message.token, targets)]
            /\ queue' = queue
    /\ UNCHANGED <<nowMs, authVars, connVars, regVars, balancePass, histVars, sweepVars, callVars, edgeVars>>

\* Lines 34-37 and the end of the loop body: on to the next record, or return.
\* Lines 13-37: resolve the record's targets; a throwing Query (queryOk
\* false) is rethrown (line 73) and fails the invocation.
WorkerResolve(queryOk) ==
    /\ worker.pass.pc = "resolve"
    /\ LET body == worker.batch[worker.i].body
           targets == WorkerTargets(body, priceTable)
       IN
       IF body.connectionIds = {} /\ ~queryOk
       THEN /\ worker' = IdleWorker
            /\ queue' = queue \o Redelivered(worker.batch)
       ELSE /\ worker' = IF targets = {}
                         THEN AfterRecord(worker)
                         ELSE [worker EXCEPT !.pass =
                                  StartPass(body.message.token, targets)]
            /\ queue' = queue
    /\ UNCHANGED <<nowMs, authVars, connVars, regVars, balancePass, histVars, sweepVars, callVars, edgeVars>>

\* Lines 47-65: one send of the pass; a failure is logged, never rethrown.
WorkerSend(c) ==
    /\ worker.pass.pc = "send"
    /\ c \in worker.pass.pending
    /\ \E o \in SendOutcomes(c) :
          worker' = [worker EXCEPT !.pass = SettleSend(@, c, o)]
    /\ UNCHANGED <<nowMs, authVars, connVars, regVars, queue, balancePass, histVars, sweepVars, callVars, edgeVars>>

\* Line 68: Promise.allSettled returns once every send has settled.
WorkerSettle ==
    /\ worker.pass.pc = "send"
    /\ worker.pass.pending = {}
    /\ worker' = [worker EXCEPT !.pass.pc = "settled"]
    /\ UNCHANGED <<nowMs, authVars, connVars, regVars, queue, balancePass, histVars, sweepVars, callVars, edgeVars>>

\* The loop of line 11 goes on; after the last record the handler returns
\* and the batch is deleted from the queue.  fanned is a history field of a
\* message: how many times its fan-out has completed.
WorkerNext ==
    /\ worker.pass.pc = "settled"
    /\ worker' = AfterRecord([worker EXCEPT !.batch[worker.i].fanned = @ + 1])
    /\ UNCHANGED <<nowMs, authVars, connVars, regVars, queue, balancePass, histVars, sweepVars, callVars, edgeVars>>

\* heliusBalance handler up to its sends (lines 20-95): 401 on a wrong
\* bearer, 400 on an invalid payload, 500 on a throwing Query, 200 when no
\* connection is subscribed to the wallet.
BalanceStart(authOk, payloadOk, wallet, queryOk) ==
    /\ balancePass.pc \in {"idle", "done"}
    /\ worker.pass.pc = "idle"
    /\ LET targets == ResolveBalance(balanceTable, wallet)
           answer(status) == [IdlePass EXCEPT !.pc = "done", !.status = status]
       IN balancePass' =
             IF ~authOk THEN answer(401)
             ELSE IF ~payloadOk THEN answer(400)
             ELSE IF ~queryOk THEN answer(500)
             ELSE IF targets = {} THEN [answer(200) EXCEPT !.topic = wallet]
             ELSE StartPass(wallet, targets)
    /\ UNCHANGED <<nowMs, authVars, connVars, regVars, queue, worker, histVars, sweepVars, callVars, edgeVars>>

\* Lines 78-95: one send of the balance pass.
BalanceSend(c) ==
    /\ balancePass.pc = "send"
    /\ c \in balancePass.pending
    /\ \E o \in SendOutcomes(c) :
          balancePass' = SettleSend(balancePass, c, o)
    /\ UNCHANGED <<nowMs, authVars, connVars, regVars, queue, worker, histVars, sweepVars, callVars, edgeVars>>

\* Lines 97-103: allSettled, then 200.
BalanceReturn ==
    /\ balancePass.pc = "send"
    /\ balancePass.pending = {}
    /\ balancePass' = [balancePass EXCEPT !.pc = "done", !.status = 200]
    /\ UNCHANGED <<nowMs, authVars, connVars, regVars, queue, worker, histVars, sweepVars, callVars, edgeVars>>

----------------------------------------------------------------------------
(* Expiry sweeper: the ttlSweeper job *)

ScanPageSize == 1       \* items one Scan page examines

\* Lines 14-18: the tables swept, in order, and (lines 47-51) their keys.
SweepTables == <<"price", "balance", "nonce">>
KeyOf(table) == IF table = "nonce" THEN "wallet" ELSE "connectionId"

\* The order in which a Scan walks the keys of a table.
KeyOrder == <<"W1", "W2", "c1", "c2", "c3">>
KeyRank(k) == CHOOSE i \in 1 .. Len(KeyOrder) : KeyOrder[i] = k

Rows(table) ==
    IF table = "price" THEN priceTable
    ELSE IF table = "balance" THEN balanceTable
    ELSE nonceTable

\* Variant of the filter that also takes the rows expiring at now (C8 is
\* sensitive to it).
ExpiredOrExpiring(item, now) == item.ttl <= now

\* FilterExpression "ttl < :now AND attribute_exists(ttl)" (line 32).
Expired(item, now) == item.ttl < now

\* The ranks of the keys one Scan page examines after ExclusiveStartKey.
RECURSIVE PageRanks(_, _, _)
PageRanks(ranks, start, limit) ==
    LET after == {i \in ranks : i > start} IN
    IF limit = 0 \/ after = {} THEN {}
    ELSE LET first == CHOOSE i \in after : \A j \in after : i <= j
         IN {first} \cup PageRanks(ranks, first, limit - 1)

Max(S) == CHOOSE i \in S : \A j \in S : j <= i

\* ScanCommand: the page's items that pass the filter, in key order, and
\* LastEvaluatedKey (0 when the scan has reached the end of the table).
ScanPage(rows, key, start, now) ==
    LET ranks == {KeyRank(r[key]) : r \in rows}
        page == PageRanks(ranks, start, ScanPageSize)
        hit == {r \in rows : KeyRank(r[key]) \in page /\ Expired(r, now)}
        last == IF page = {} THEN 0 ELSE Max(page)
        Item(i) == CHOOSE r \in hit : KeyRank(r[key]) = i
        hits == {KeyRank(r[key]) : r \in hit}
        RECURSIVE InOrder(_)
        InOrder(S) == IF S = {} THEN <<>>
                      ELSE LET m == Max(S) IN Append(InOrder(S \ {m}), Item(m))
    IN [items |-> InOrder(hits),
        lastEvaluatedKey |-> IF \E i \in ranks : i > last THEN last ELSE 0]

\* before is a history field: the three tables as the invocation began;
\* faulted: has a Scan or a Delete of this invocation thrown? scanFailed and
\* deleteFailed are history fields: the tables whose Scan threw, and the
\* (table, key) pairs whose Delete threw.
IdleSweeper ==
    [pc |-> "idle", now |-> 0, t |-> 0, lastEvaluatedKey |-> 0, items |-> <<>>,
     deletedCount |-> <<0, 0, 0>>, faulted |-> FALSE,
     before |-> [price |-> {}, balance |-> {}, nonce |-> {}],
     scanFailed |-> {}, deleteFailed |-> {}]

\* Lines 8-18: the cron invokes the handler, which reads the clock once.
SweepStart ==
    /\ sweeper.pc = "idle"
    /\ sweeper' = [IdleSweeper EXCEPT
                      !.pc = "scan", !.now = UnixSeconds(nowMs), !.t = 1,
                      !.before = [price |-> priceTable, balance |-> balanceTable,
                                  nonce |-> nonceTable]]
    /\ UNCHANGED <<nowMs, authVars, connVars, regVars, fanVars, histVars, callVars, edgeVars>>

\* Variant of the paging that never follows LastEvaluatedKey: one page per
\* table (C24 is sensitive to it).
SweepOnFirstPage(sw, lastKey) ==
    IF sw.t < Len(SweepTables)
    THEN [sw EXCEPT !.pc = "scan", !.lastEvaluatedKey = 0, !.items = <<>>,
                    !.t = @ + 1]
    ELSE [sw EXCEPT !.pc = "done", !.lastEvaluatedKey = 0, !.items = <<>>]

\* Lines 20 and 67-75: the next page of this table, else the next table,
\* else the handler returns.
SweepOn(sw, lastKey) ==
    IF lastKey # 0
    THEN [sw EXCEPT !.pc = "scan", !.lastEvaluatedKey = lastKey, !.items = <<>>]
    ELSE IF sw.t < Len(SweepTables)
    THEN [sw EXCEPT !.pc = "scan", !.lastEvaluatedKey = 0, !.items = <<>>,
                    !.t = @ + 1]
    ELSE [sw EXCEPT !.pc = "done", !.lastEvaluatedKey = 0, !.items = <<>>]

\* Lines 27-40: one Scan page; a throwing Scan (scanOk false) is caught by
\* line 72 and ends the sweep of this table.
SweepScan(scanOk) ==
    /\ sweeper.pc = "scan"
    /\ LET table == SweepTables[sweeper.t]
           res == ScanPage(Rows(table), KeyOf(table),
                           sweeper.lastEvaluatedKey, sweeper.now)
       IN sweeper' =
             IF ~scanOk
             THEN SweepOn([sweeper EXCEPT !.faulted = TRUE,
                                          !.scanFailed = @ \cup {table}], 0)
             ELSE IF res.items = <<>> THEN SweepOn(sweeper, res.lastEvaluatedKey)
             ELSE [sweeper EXCEPT !.pc = "delete", !.items = res.items,
                                  !.lastEvaluatedKey = res.lastEvaluatedKey]
    /\ UNCHANGED <<nowMs, authVars, connVars, regVars, fanVars, histVars, callVars, edgeVars>>

\* Variant of the counter that counts every Delete attempt (C23 is sensitive
\* to it).
CountedAlways(count, deleteOk) == count + 1

\* Line 60: deletedCount++ follows the awaited Delete inside the try.
Counted(count, deleteOk) == IF deleteOk THEN count + 1 ELSE count

\* Lines 42-64: the unconditional Delete of the next scanned item's key; a
\* throwing Delete is caught by line 61 and not counted.
SweepDelete(deleteOk) ==
    /\ sweeper.pc = "delete"
    /\ LET table == SweepTables[sweeper.t]
           item == Head(sweeper.items)
           key == KeyOf(table)
           kept == DeleteItem(Rows(table), key, item[key])
           sw == [sweeper EXCEPT !.items = Tail(@),
                                 !.deletedCount[sweeper.t] = Counted(@, deleteOk),
                                 !.faulted = @ \/ ~deleteOk,
                                 !.deleteFailed =
                                     IF deleteOk THEN @
                                     ELSE @ \cup {[table |-> table,
                                                   key |-> item[key]]}]
       IN /\ sweeper' = IF sw.items = <<>>
                        THEN SweepOn(sw, sw.lastEvaluatedKey)
                        ELSE sw
          /\ priceTable' = IF deleteOk /\ table = "price" THEN kept ELSE priceTable
          /\ balanceTable' = IF deleteOk /\ table = "balance" THEN kept
                             ELSE balanceTable
          /\ nonceTable' = IF deleteOk /\ table = "nonce" THEN kept ELSE nonceTable
    /\ UNCHANGED <<nowMs, nextNonce, attempt, connVars, fanVars, histVars, callVars, edgeVars>>

\* Line 77: the handler returns.
SweepReturn ==
    /\ sweeper.pc = "done"
    /\ sweeper' = [sweeper EXCEPT !.pc = "idle"]
    /\ UNCHANGED <<nowMs, authVars, connVars, regVars, fanVars, histVars, callVars, edgeVars>>

----------------------------------------------------------------------------
(* subscribePrice and $disconnect as invocations that interleave: the      *)
(* subscribePrice handler split at its await on the store.                 *)

IdleSubscribe == [pc |-> "idle", token |-> NoTopic, at |-> 0]

\* Lines 14-28: API Gateway hands a message of an open connection to the
\* handler, which parses the body and reads the clock for the ttl; a body
\* without a token is answered 400 with nothing written.
SubscribePriceBegin(c, token) ==
    /\ c \in alive
    /\ subscribing[c].pc = "idle"
    /\ subscribing' = [subscribing EXCEPT ![c] =
                          IF token = NoTopic THEN IdleSubscribe
                          ELSE [pc |-> "put", token |-> token, at |-> nowMs]]
    /\ UNCHANGED <<nowMs, authVars, connVars, regVars, fanVars, sweepVars, edgeVars>>

\* Lines 31-90: the Put answers (or throws); the handler then posts its
\* confirmation or error to the connection and returns.
SubscribePricePut(c, putOk) ==
    /\ subscribing[c].pc = "put"
    /\ priceTable' = IF putOk
                     THEN PutItem(priceTable, "connectionId",
                                  PriceItem(c, subscribing[c].token,
                                            subscribing[c].at))
                     ELSE priceTable
    /\ subscribing' = [subscribing EXCEPT ![c] = IdleSubscribe]
    /\ UNCHANGED <<nowMs, authVars, connVars, balanceTable, fanVars, sweepVars, edgeVars>>

\* History: the last registry call each connection has completed.
NoOp == [op |-> "none", topic |-> NoTopic]

LogLast(c, op, topic) ==
    lastOp' = [lastOp EXCEPT ![c] = [op |-> op, topic |-> topic]]

\* History: a $disconnect call and the tables whose Delete threw.
LogDisconnect(c, priceOk, balanceOk) ==
    regLog' = [last |-> [op |-> "disconnect", conn |-> c, topic |-> NoTopic,
                         at |-> UnixSeconds(nowMs),
                         stored |-> priceOk /\ balanceOk, status |-> 200,
                         faults |-> {t \in {"price", "balance"} :
                                        \/ t = "price" /\ ~priceOk
                                        \/ t = "balance" /\ ~balanceOk}],
               prev |-> regLog.last]

----------------------------------------------------------------------------
(* Engine B: the edge worker and the BroadcastRoom durable object.  A      *)
(* client's edge socket and its entry in the room's connections map are    *)
(* named by the client.                                                    *)

PubIds == {"p1", "p2"}
StaleAfterMs == 300000
NoPublish == ""

\* constructor (lines 13-25): an empty connections map.  running is the
\* request that holds the actor's single thread, if any.
\* alarm is the time of the object's pending storage alarm, NoAlarm when none
\* is set.
NoAlarm == 0
IdleRoom == [connections |-> <<>>, running |-> NoPublish, alarm |-> NoAlarm]

\* message is the request body, messageStr what the loop sends.  before,
\* iterated and sent are history fields: the ids in the map when the loop
\* began, the ids the loop has visited, the sockets it has sent to.
IdlePublish ==
    [pc |-> "idle", token |-> NoTopic, message |-> PriceMessage("", 0, 0),
     messageStr |-> PriceMessage("", 0, 0), i |-> 0, closedConnections |-> <<>>, before |-> <<>>, iterated |-> <<>>,
     sent |-> {}, status |-> 0, size |-> 0]

Ids(connections) == [k \in 1 .. Len(connections) |-> connections[k].id]
IdSet(connections) == {connections[k].id : k \in 1 .. Len(connections)}

\* The room that holds a connection for the client, if any.
RoomsOf(c) == {t \in Tokens : c \in IdSet(room[t].connections)}

\* socket.send throws on a socket that is no longer open.
SocketSendThrows(c) == c \notin edgeOpen

\* Lines 163-166: the message as sent, stamped with the room's clock.
MessageStr(message) == [message EXCEPT !.timestamp = nowMs]

\* Variant of the room lookup that names one room whatever the token (C32
\* is sensitive to it).
RoomForShared(token) == "T1"

\* env.BROADCAST_ROOM.idFromName(token) (connect.ts 118 and 157): the room
\* of a token is the object named by the token.
RoomFor(token) == token

\* Variant in which the send loop gives up the thread between two sends
\* (C13 is sensitive to it).
LoopYieldsBetweenSends == TRUE

\* The loop of lines 171-178 has no await: it keeps the thread.
LoopYields == FALSE

\* May request p run in the room?  The actor runs one request at a time
\* until it awaits or returns.
MayRun(t, p) == room[t].running \in {NoPublish, p}

\* Edge worker, POST /broadcast/:token (connect.ts 100-133), up to the
\* room's await of the request body (lines 27-34): 400 without a token, 401
\* on a wrong bearer, 500 on an unparseable body.
EdgeBroadcast(p, token, authOk, payloadOk, message) ==
    /\ publish[p].pc = "idle"
    /\ publish' = [publish EXCEPT ![p] =
          IF token = NoTopic THEN [@ EXCEPT !.pc = "done", !.status = 400]
          ELSE IF ~authOk THEN [@ EXCEPT !.pc = "done", !.status = 401]
          ELSE IF ~payloadOk THEN [@ EXCEPT !.pc = "done", !.status = 500]
          ELSE [@ EXCEPT !.pc = "json", !.token = token, !.message = message]]
    /\ UNCHANGED <<nowMs, authVars, connVars, regVars, fanVars, histVars, sweepVars,
                   callVars, room, edgeOpen, edgeClosing, inbox, received>>

\* Lines 35 and 162-168: broadcast is entered.
RoomBroadcastBegin(p) ==
    /\ publish[p].pc = "json"
    /\ LET t == RoomFor(publish[p].token) IN
       /\ MayRun(t, p)
       /\ room' = [room EXCEPT ![t].running = p]
       /\ publish' = [publish EXCEPT ![p] =
             [@ EXCEPT !.pc = "loop", !.messageStr = MessageStr(publish[p].message),
                       !.i = 1,
                       !.before = Ids(room[t].connections)]]
    /\ UNCHANGED <<nowMs, authVars, connVars, regVars, fanVars, histVars, sweepVars,
                   callVars, edgeOpen, edgeClosing, inbox, received>>

\* Lines 171-178: one iteration of the loop over the connections map.
RoomSend(p) ==
    /\ publish[p].pc = "loop"
    /\ LET t == RoomFor(publish[p].token)
           i == publish[p].i
       IN
       /\ MayRun(t, p)
       /\ i <= Len(room[t].connections)
       /\ LET c == room[t].connections[i].id IN
          /\ publish' = [publish EXCEPT ![p] =
                [@ EXCEPT !.i = i + 1,
                          !.iterated = Append(@, c),
                          !.sent = IF SocketSendThrows(c) THEN @ ELSE @ \cup {c},
                          !.closedConnections =
                              IF SocketSendThrows(c) THEN Append(@, c) ELSE @]]
          /\ received' = IF SocketSendThrows(c) THEN received
                         ELSE [received EXCEPT ![c] =
                                  Append(@, [pub |-> p,
                                             message |-> publish[p].messageStr])]
       /\ room' = [room EXCEPT ![t].running = IF LoopYields THEN NoPublish ELSE p]
    /\ UNCHANGED <<nowMs, authVars, connVars, regVars, fanVars, histVars, sweepVars,
                   callVars, edgeOpen, edgeClosing, inbox>>

\* Variant of Kept that deletes nothing (C12 is sensitive to it).
KeptAll(connections, closedConnections) == connections

\* Lines 180-183: the map after the connections whose send threw are deleted.
Kept(connections, closedConnections) ==
    SelectSeq(connections,
              LAMBDA e : \A k \in 1 .. Len(closedConnections) :
                            closedConnections[k] # e.id)

\* Variant of RoomBroadcastReturn that answers 500 when no connection is
\* left to count (C25 is sensitive to it).
RoomBroadcastReturnNeedsMembers(p) ==
    /\ publish[p].pc = "loop"
    /\ LET t == RoomFor(publish[p].token)
           kept == Kept(room[t].connections, publish[p].closedConnections)
       IN
       /\ MayRun(t, p)
       /\ publish[p].i > Len(room[t].connections)
       /\ room' = [room EXCEPT ![t].connections = kept, ![t].running = NoPublish]
       /\ publish' = [publish EXCEPT ![p] =
             [@ EXCEPT !.pc = "done",
                       !.status = IF kept = <<>> THEN 500 ELSE 200,
                       !.size = Len(kept)]]
    /\ UNCHANGED <<nowMs, authVars, connVars, regVars, fanVars, histVars, sweepVars,
                   callVars, edgeOpen, edgeClosing, inbox, received>>

\* Lines 180-185 and 36-41: the connections whose send threw are deleted
\* from the map and the request is answered with the size of the map.
RoomBroadcastReturn(p) ==
    /\ publish[p].pc = "loop"
    /\ LET t == RoomFor(publish[p].token)
           kept == Kept(room[t].connections, publish[p].closedConnections)
       IN
       /\ MayRun(t, p)
       /\ publish[p].i > Len(room[t].connections)
       /\ room' = [room EXCEPT ![t].connections = kept, ![t].running = NoPublish]
       /\ publish' = [publish EXCEPT ![p] =
             [@ EXCEPT !.pc = "done", !.status = 200, !.size = Len(kept)]]
    /\ UNCHANGED <<nowMs, authVars, connVars, regVars, fanVars, histVars, sweepVars,
                   callVars, edgeOpen, edgeClosing, inbox, received>>

\* cleanupStaleConnections (lines 188-210): the connections not heard of for
\* more than five minutes are closed and deleted from the map.
Stale(e) == nowMs - e.lastPing > StaleAfterMs

\* Edge worker, /ws/:token (connect.ts 136-162) and the room's upgrade
\* (lines 49-82) for a client that passes the router's checks: the socket is
\* accepted, stored under a fresh id and sent the welcome message; one time
\* in ten (cleanup) the stale connections are cleaned up.  path is a history
\* field of the log: the token of the path the socket connected through.
RoomUpgrade(c, token, cleanup) ==
    /\ room[RoomFor(token)].running = NoPublish
    /\ received[c] = <<>>
    /\ c \notin edgeOpen
    /\ LET added == Append(room[RoomFor(token)].connections, [id |-> c, lastPing |-> nowMs])
           stale == {added[k].id : k \in {j \in 1 .. Len(added) : Stale(added[j])}}
       IN
       /\ room' = [room EXCEPT ![RoomFor(token)].connections =
                      IF cleanup THEN SelectSeq(added, LAMBDA e : ~Stale(e))
                      ELSE added]
       /\ edgeOpen' = IF cleanup THEN (edgeOpen \cup {c}) \ stale
                      ELSE edgeOpen \cup {c}
    /\ received' = [received EXCEPT ![c] =
                       <<[pub |-> NoPublish, path |-> token,
                          message |-> [type |-> "connected", connectionId |-> c,
                                       timestamp |-> nowMs]]>>]
    /\ UNCHANGED <<nowMs, authVars, connVars, regVars, fanVars, histVars, sweepVars,
                   callVars, edgeClosing, inbox, publish>>

\* The client's edge socket closes or drops; the room is told by a close
\* event that it has yet to handle.
EdgeDrop(c) ==
    /\ c \in edgeOpen
    /\ edgeOpen' = edgeOpen \ {c}
    /\ edgeClosing' = edgeClosing \cup {c}
    /\ UNCHANGED <<nowMs, authVars, connVars, regVars, fanVars, histVars, sweepVars,
                   callVars, room, inbox, received, publish>>

\* Variant of the close handler that leaves the connection in the map (C38
\* is sensitive to it).
RoomHandleCloseKeeps(c) ==
    /\ c \in edgeClosing
    /\ \A t \in RoomsOf(c) : room[t].running = NoPublish
    /\ edgeClosing' = edgeClosing \ {c}
    /\ UNCHANGED <<nowMs, authVars, connVars, regVars, fanVars, histVars, sweepVars,
                   callVars, room, edgeOpen, inbox, received, publish>>

\* handleWebSocketClose (lines 133-147): the socket's connection is deleted.
RoomHandleClose(c) ==
    /\ c \in edgeClosing
    /\ \A t \in RoomsOf(c) : room[t].running = NoPublish
    /\ edgeClosing' = edgeClosing \ {c}
    /\ room' = [t \in Tokens |->
                  [room[t] EXCEPT !.connections =
                      SelectSeq(@, LAMBDA e : e.id # c)]]
    /\ UNCHANGED <<nowMs, authVars, connVars, regVars, fanVars, histVars, sweepVars,
                   callVars, edgeOpen, inbox, received, publish>>

\* What a client sends on its edge socket: a ping, or a subscribe naming a
\* token.
Ping == [type |-> "ping", token |-> NoTopic]
Subscribe(token) == [type |-> "subscribe", token |-> token]
MaxInbox == 1
MaxReceived == 2

\* The client sends a message on its open socket (a client that has been
\* sent MaxReceived messages sends no more).
ClientSend(c, data) ==
    /\ c \in edgeOpen
    /\ Len(inbox[c]) < MaxInbox
    /\ Len(received[c]) < MaxReceived
    /\ inbox' = [inbox EXCEPT ![c] = Append(@, data)]
    /\ UNCHANGED <<nowMs, authVars, connVars, regVars, fanVars, histVars, sweepVars,
                   callVars, room, edgeOpen, edgeClosing, received, publish>>

\* The room's answer to a client message (lines 109-122).
Reply(data) ==
    IF data.type = "ping" THEN [type |-> "pong", timestamp |-> nowMs]
    ELSE [type |-> "subscribed", token |-> data.token, timestamp |-> nowMs]

\* handleWebSocketMessage (lines 87-131): the socket's connection is looked
\* up in the map and its lastPing refreshed; a socket the map does not hold
\* is logged as unknown and gets no answer; else the answer is sent (a send
\* on a socket that is no longer open throws and nothing is sent).
RoomHandleMessage(c) ==
    /\ inbox[c] # <<>>
    /\ \A t \in RoomsOf(c) : room[t].running = NoPublish
    /\ inbox' = [inbox EXCEPT ![c] = Tail(@)]
    /\ room' = [t \in Tokens |->
                  [room[t] EXCEPT !.connections =
                      [k \in 1 .. Len(@) |->
                          IF @[k].id = c THEN [@[k] EXCEPT !.lastPing = nowMs]
                          ELSE @[k]]]]
    /\ received' = IF RoomsOf(c) = {} \/ SocketSendThrows(c) THEN received
                   ELSE [received EXCEPT ![c] =
                            Append(@, [pub |-> NoPublish,
                                       message |-> Reply(Head(inbox[c]))])]
    /\ UNCHANGED <<nowMs, authVars, connVars, regVars, fanVars, histVars, sweepVars,
                   callVars, edgeOpen, edgeClosing, publish>>

\* Lines 149-160: handleWebSocketError, the room's handler of a socket's
\* error event: the socket's entry is deleted from the map.  The socket's
\* close event is still to come.
RoomHandleError(c) ==
    /\ c \in edgeClosing
    /\ \A t \in RoomsOf(c) : room[t].running = NoPublish
    /\ room' = [t \in Tokens |->
                  [room[t] EXCEPT !.connections =
                      SelectSeq(@, LAMBDA e : e.id # c)]]
    /\ UNCHANGED <<nowMs, authVars, connVars, regVars, fanVars, histVars, sweepVars,
                   callVars, edgeOpen, edgeClosing, inbox, received, publish>>

\* Lines 188-221: alarm, the handler the runtime calls when the pending
\* storage alarm is due: cleanupStaleConnections closes and deletes the
\* entries whose last message is older than StaleAfterMs, and the alarm is set
\* again only if connections remain.  storage.setAlarm is called nowhere
\* else, so no behaviour of the program has an alarm pending and none of
\* the specifications takes this step.
RoomAlarm(t) ==
    /\ room[t].alarm # NoAlarm
    /\ nowMs >= room[t].alarm
    /\ room[t].running = NoPublish
    /\ LET stale == {e.id : e \in {room[t].connections[k] :
                                     k \in {j \in 1 .. Len(room[t].connections) :
                                               Stale(room[t].connections[j])}}}
           kept == SelectSeq(room[t].connections, LAMBDA e : ~Stale(e))
       IN
       /\ room' = [room EXCEPT ![t].connections = kept,
                               ![t].alarm = IF kept # <<>>
                                            THEN nowMs + StaleAfterMs
                                            ELSE NoAlarm]
       /\ edgeOpen' = edgeOpen \ stale
    /\ UNCHANGED <<nowMs, authVars, connVars, regVars, fanVars, histVars, sweepVars,
                   callVars, edgeClosing, inbox, received, publish>>

\* Sockets are accepted with state.acceptWebSocket (line 55), so the
\* runtime may remove an object that runs no request from memory while its
\* sockets stay open (line 19); the next event constructs it anew (lines
\* 13-25) with an empty connections map.
RoomReactivate(t) ==
    /\ room[t].running = NoPublish
    /\ \A p \in PubIds :
          (publish[p].token # NoTopic /\ RoomFor(publish[p].token) = t)
             => publish[p].pc \in {"idle", "done"}
    /\ room[t].connections # <<>>
    /\ room' = [room EXCEPT ![t] = [IdleRoom EXCEPT !.alarm = room[t].alarm]]
    /\ UNCHANGED <<nowMs, authVars, connVars, regVars, fanVars, histVars, sweepVars,
                   callVars, edgeOpen, edgeClosing, inbox, received, publish>>

----------------------------------------------------------------------------
(* Specifications *)

Init ==
    /\ nowMs = StartMs
    /\ nonceTable = {}
    /\ nextNonce = 1
    /\ attempt = [c \in Conns |-> IdleAttempt]
    /\ alive = {}
    /\ closed = {}
    /\ priceTable = {}
    /\ balanceTable = {}
    /\ regLog = [last |-> NoCall, prev |-> NoCall]
    /\ queue = <<>>
    /\ worker = IdleWorker
    /\ balancePass = IdlePass
    /\ webhook = NoWebhook
    /\ sweeper = IdleSweeper
    /\ lastOp = [c \in Conns |-> NoOp]
    /\ subscribing = [c \in Conns |-> IdleSubscribe]
    /\ room = [t \in Tokens |-> IdleRoom]
    /\ edgeOpen = {}
    /\ edgeClosing = {}
    /\ inbox = [c \in Conns |-> <<>>]
    /\ received = [c \in Conns |-> <<>>]
    /\ publish = [p \in PubIds |-> IdlePublish]

\* What a client can present: a wallet, a nonce value and a signature.
WalletParams == Wallets \cup {NoParam}
MessageParams == 0 .. MaxNonces
SignatureParams(wallet, message) ==
    {NoSignature, BadSignature}
        \cup {Sign(w, message) : w \in Wallets}
        \cup {Sign(wallet, m) : m \in 1 .. MaxNonces}

NoneInFlight == \A c \in Conns : attempt[c].pc \in {"idle", "done"}

\* The authenticator with connection attempts arriving one after another.
NextAuthSeq ==
    \/ \E w \in Wallets, putOk \in BOOLEAN : GenerateNonce(w, putOk)
    \/ /\ NoneInFlight
       /\ \E c \in AuthConns, w \in WalletParams, m \in MessageParams :
             \E s \in SignatureParams(w, m) : ConnectStart(c, w, s, m)
    \/ \E c \in AuthConns, getOk \in BOOLEAN : ConnectGet(c, getOk)
    \/ \E c \in AuthConns, deleteOk \in BOOLEAN : ConnectDelete(c, deleteOk)

SpecAuthSeq == Init /\ [][NextAuthSeq]_vars

\* The authenticator with concurrent $connect invocations.
NextAuth ==
    \/ \E w \in Wallets, putOk \in BOOLEAN : GenerateNonce(w, putOk)
    \/ \E c \in AuthConns, w \in WalletParams, m \in MessageParams :
          \E s \in SignatureParams(w, m) : ConnectStart(c, w, s, m)
    \/ \E c \in AuthConns, getOk \in BOOLEAN : ConnectGet(c, getOk)
    \/ \E c \in AuthConns, deleteOk \in BOOLEAN : ConnectDelete(c, deleteOk)

SpecAuth == Init /\ [][NextAuth]_vars

\* The state once every connection id has been issued a nonce for W1 (an
\* earlier one than those of this behaviour) and has been admitted with it.
AdmittedAttempt(n) ==
    [pc |-> "done", wallet |-> "W1", message |-> n, signature |-> Sign("W1", n),
     found |-> {NonceItem("W1", n, StartMs)},
     verify |-> "true", replay |-> FALSE, status |-> 200, error |-> ""]

ConnNumber(c) == CHOOSE n \in 1 .. 3 : <<"c1", "c2", "c3">>[n] = c

InitLive ==
    /\ nowMs = StartMs
    /\ nonceTable = {}
    /\ nextNonce = 1
    /\ attempt = [c \in Conns |-> AdmittedAttempt(0 - ConnNumber(c))]
    /\ alive = Conns
    /\ closed = {}
    /\ priceTable = {}
    /\ balanceTable = {}
    /\ regLog = [last |-> NoCall, prev |-> NoCall]
    /\ queue = <<>>
    /\ worker = IdleWorker
    /\ balancePass = IdlePass
    /\ webhook = NoWebhook
    /\ sweeper = IdleSweeper
    /\ lastOp = [c \in Conns |-> NoOp]
    /\ subscribing = [c \in Conns |-> IdleSubscribe]
    /\ room = [t \in Tokens |-> IdleRoom]
    /\ edgeOpen = {}
    /\ edgeClosing = {}
    /\ inbox = [c \in Conns |-> <<>>]
    /\ received = [c \in Conns |-> <<>>]
    /\ publish = [p \in PubIds |-> IdlePublish]

TopicParams == Tokens \cup {NoTopic}
RegConns == {"c1", "c2"}
FanConns == {"c1", "c2"}

\* The price registry under subscribePrice calls and the passing of time,
\* with the history of the calls.
NextRegistry ==
    \/ \E c \in RegConns, t \in TopicParams, putOk \in BOOLEAN, sendOk \in BOOLEAN :
          /\ SubscribePrice(c, t, putOk)
          /\ LogCall("subscribePrice", c, t, t # NoTopic /\ putOk,
                     SubscribeStatus(t, putOk, sendOk))
          /\ UNCHANGED <<webhook, lastOp>>
    \/ Tick

SpecRegistry == InitLive /\ [][NextRegistry]_vars

\* Engine A without store faults: subscriptions, a publisher without the
\* edge engine, the worker and the balance webhook, connections dropping.
NextFanout ==
    \/ \E c \in FanConns, t \in Tokens :
          SubscribePrice(c, t, TRUE) /\ UNCHANGED histVars
    \/ \E c \in FanConns :
          SubscribeBalance(c, "W1", TRUE) /\ UNCHANGED histVars
    \/ \E c \in FanConns : Close(c, FALSE)
    \/ \E t \in Tokens, p \in Prices, ts \in Timestamps :
          /\ HeliusPrice(TRUE, TRUE, TRUE, PriceMessage(t, p, ts), FALSE,
                         "notcalled", TRUE, TRUE)
          /\ UNCHANGED histVars
    \/ WorkerInvoke
    \/ WorkerResolve(TRUE)
    \/ \E c \in FanConns : WorkerSend(c)
    \/ WorkerSettle
    \/ WorkerNext
    \/ BalanceStart(TRUE, TRUE, "W1", TRUE)
    \/ \E c \in FanConns : BalanceSend(c)
    \/ BalanceReturn

SpecFanout == InitLive /\ [][NextFanout]_vars

\* The sweeper without store faults, with the tables written only between
\* its invocations.
NextSweep ==
    \/ \E c \in Conns :
          /\ sweeper.pc = "idle"
          /\ SubscribePrice(c, "T1", TRUE) /\ UNCHANGED histVars
    \/ /\ sweeper.pc = "idle"
       /\ SubscribeBalance("c1", "W1", TRUE) /\ UNCHANGED histVars
    \/ sweeper.pc = "idle" /\ GenerateNonce("W1", TRUE)
    \/ Tick
    \/ SweepStart
    \/ SweepScan(TRUE)
    \/ SweepDelete(TRUE)
    \/ SweepReturn

SpecSweep == InitLive /\ [][NextSweep]_vars

\* The sweeper running concurrently with subscribe and nonce traffic.
NextSweepLive ==
    \/ \E c \in RegConns : SubscribePrice(c, "T1", TRUE) /\ UNCHANGED histVars
    \/ SubscribeBalance("c1", "W1", TRUE) /\ UNCHANGED histVars
    \/ GenerateNonce("W1", TRUE)
    \/ Tick
    \/ SweepStart
    \/ SweepScan(TRUE)
    \/ SweepDelete(TRUE)
    \/ SweepReturn

SpecSweepLive == InitLive /\ [][NextSweepLive]_vars

\* The price webhook with every outcome of its calls, and the worker
\* draining the queue (no connection is subscribed).
NextPublish ==
    \/ \E authOk \in BOOLEAN, payloadOk \in BOOLEAN, putOk \in BOOLEAN,
          t \in Tokens, p \in Prices, ts \in Timestamps,
          edgeConfigured \in BOOLEAN, edge \in {"ok", "notok", "threw"},
          sqs1Ok \in BOOLEAN, sqs2Ok \in BOOLEAN :
          /\ HeliusPrice(authOk, payloadOk, putOk, PriceMessage(t, p, ts),
                         edgeConfigured, edge, sqs1Ok, sqs2Ok)
          /\ LogWebhook(authOk, payloadOk, putOk, PriceMessage(t, p, ts),
                        edgeConfigured, edge, sqs1Ok, sqs2Ok)
          /\ UNCHANGED <<regLog, lastOp>>
    \/ WorkerInvoke
    \/ \E queryOk \in BOOLEAN : WorkerResolve(queryOk)

SpecPublish == InitLive /\ [][NextPublish]_vars

\* Both engines side by side: clients subscribe on Engine A and connect to
\* rooms of Engine B, some of them drop, and then one message is broadcast
\* through each engine while the clients stay as they are.
NothingPublished ==
    /\ queue = <<>>
    /\ worker = IdleWorker
    /\ \A p \in PubIds : publish[p].pc = "idle"

NextEngines ==
    \/ /\ NothingPublished
       /\ \/ \E c \in FanConns, t \in Tokens :
                SubscribePrice(c, t, TRUE) /\ UNCHANGED histVars
          \/ \E c \in FanConns, t \in Tokens : RoomUpgrade(c, t, FALSE)
          \/ \E c \in FanConns : Close(c, FALSE)
          \/ \E c \in FanConns : EdgeDrop(c)
          \/ \E c \in FanConns : RoomHandleClose(c)
    \/ \E t \in Tokens, p \in Prices, ts \in Timestamps :
          /\ HeliusPrice(TRUE, TRUE, TRUE, PriceMessage(t, p, ts), FALSE,
                         "notcalled", TRUE, TRUE)
          /\ UNCHANGED histVars
    \/ WorkerInvoke
    \/ WorkerResolve(TRUE)
    \/ \E c \in FanConns : WorkerSend(c)
    \/ WorkerSettle
    \/ WorkerNext
    \/ \E t \in Tokens, p \in Prices, ts \in Timestamps :
          EdgeBroadcast("p1", t, TRUE, TRUE, PriceMessage(t, p, ts))
    \/ RoomBroadcastBegin("p1")
    \/ RoomSend("p1")
    \/ RoomBroadcastReturn("p1")

SpecEngines == InitLive /\ [][NextEngines]_vars

\* Engine B alone: clients connect to rooms and drop, and publishes to the
\* rooms overlap.
NextRoom ==
    \/ \E c \in Conns, t \in Tokens, cleanup \in BOOLEAN : RoomUpgrade(c, t, cleanup)
    \/ \E c \in Conns : EdgeDrop(c)
    \/ \E c \in Conns : RoomHandleClose(c)
    \/ \E p \in PubIds, t \in Tokens, authOk \in BOOLEAN, payloadOk \in BOOLEAN,
          price \in Prices, ts \in Timestamps :
          EdgeBroadcast(p, t, authOk, payloadOk, PriceMessage(t, price, ts))
    \/ \E p \in PubIds : RoomBroadcastBegin(p)
    \/ \E p \in PubIds : RoomSend(p)
    \/ \E p \in PubIds : RoomBroadcastReturn(p)

SpecRoom == Init /\ [][NextRoom]_vars

\* The registry under subscribes, closing connections and $disconnect calls
\* whose Deletes may throw.
NextDisconnect ==
    \/ \E c \in Conns, t \in Tokens :
          SubscribePrice(c, t, TRUE) /\ UNCHANGED histVars
    \/ \E c \in Conns, w \in Wallets :
          SubscribeBalance(c, w, TRUE) /\ UNCHANGED histVars
    \/ \E c \in Conns : Close(c, TRUE)
    \/ \E c \in Conns, priceOk \in BOOLEAN, balanceOk \in BOOLEAN :
          /\ Disconnect(c, priceOk, balanceOk)
          /\ LogDisconnect(c, priceOk, balanceOk)
          /\ UNCHANGED <<webhook, lastOp>>

SpecDisconnect == InitLive /\ [][NextDisconnect]_vars

\* A subscribePrice invocation racing with the close of its own connection
\* and the $disconnect call that follows; no store faults.
NextRace ==
    \/ \E c \in Conns, t \in TopicParams : SubscribePriceBegin(c, t) /\ UNCHANGED histVars
    \/ \E c \in Conns :
          /\ SubscribePricePut(c, TRUE)
          /\ LogLast(c, "subscribePrice", subscribing[c].token)
          /\ UNCHANGED <<regLog, webhook>>
    \/ \E c \in Conns : Close(c, TRUE)
    \/ \E c \in Conns :
          /\ Disconnect(c, TRUE, TRUE)
          /\ LogLast(c, "disconnect", NoTopic)
          /\ UNCHANGED <<regLog, webhook>>

SpecRace == InitLive /\ [][NextRace]_vars

\* Subscribes and disconnects of distinct connections interleaving, each
\* connection's own calls one after another; no store faults.
NextRows ==
    \/ \E c \in Conns, t \in TopicParams : SubscribePriceBegin(c, t) /\ UNCHANGED histVars
    \/ \E c \in Conns :
          /\ SubscribePricePut(c, TRUE)
          /\ LogLast(c, "subscribePrice", subscribing[c].token)
          /\ UNCHANGED <<regLog, webhook>>
    \/ \E c \in Conns : subscribing[c].pc = "idle" /\ Close(c, TRUE)
    \/ \E c \in Conns :
          /\ Disconnect(c, TRUE, TRUE)
          /\ LogLast(c, "disconnect", NoTopic)
          /\ UNCHANGED <<regLog, webhook>>

SpecRows == InitLive /\ [][NextRows]_vars

----------------------------------------------------------------------------
(* Claims about the authenticator *)

Done(c) == attempt[c].pc = "done"
AllPresent(a) ==
    a.wallet # NoParam /\ a.signature.kind # "missing" /\ a.message # NoMessage
Admitted(c) == Done(c) /\ attempt[c].status = 200
RejectedNonce(c) ==
    Done(c) /\ attempt[c].status = 401 /\ attempt[c].error = "Invalid or expired nonce"
\* A 500 before any gate ran: the Get on the nonce table threw.
LookupFaulted(c) ==
    Done(c) /\ attempt[c].status = 500 /\ attempt[c].verify = "notrun"

C4_NonceSingleUseConcurrent ==
    \A c \in Conns, o \in Conns :
        (c # o /\ Admitted(c) /\ Admitted(o))
            => ~(attempt[c].wallet = attempt[o].wallet
                 /\ attempt[c].message = attempt[o].message)

StoredNonceEquals(a) == a.found # {} /\ \A r \in a.found : r.nonce = a.message
RejectedSignature(c) ==
    /\ Done(c) /\ attempt[c].status = 401
    /\ attempt[c].error \in {"Invalid signature", "Invalid signature format"}

\* C18: in every connect attempt the signature is verified only after the
\* lookup has found a stored nonce equal to the presented one; an attempt
\* whose nonce is missing or mismatched is rejected (or answered 500 when
\* its lookup faults) without the verification having run.
C18_GateOrdering ==
    \A c \in Conns :
        LET a == attempt[c] IN
        /\ a.verify # "notrun" => StoredNonceEquals(a)
        /\ (Done(c) /\ AllPresent(a) /\ ~StoredNonceEquals(a))
              => /\ a.verify = "notrun"
                 /\ RejectedNonce(c) \/ LookupFaulted(c)

C18_Witness ==
    \E c \in Conns, o \in Conns :
        /\ RejectedNonce(c) /\ attempt[c].verify = "notrun"
        /\ attempt[c].signature.kind = "malformed"
        /\ attempt[c].found # {}
        /\ RejectedSignature(o) /\ attempt[o].verify = "threw"

\* C19: a connect attempt whose nonce matched and whose signature verified
\* is answered 200, also when the Delete of the consumed nonce fails.
C19_AdmittedDespiteFailedDelete ==
    \A c \in Conns :
        (Done(c) /\ StoredNonceEquals(attempt[c]) /\ attempt[c].verify = "true")
            => attempt[c].status = 200

\* The nonce a signature-rejected attempt had found is still stored, unless
\* a later attempt has since been admitted with it or a later nonce has
\* been issued.
RejectedNonceKept(o) ==
    \A item \in attempt[o].found :
        \/ item \in nonceTable
        \/ \E c \in Conns : /\ Admitted(c)
                            /\ attempt[c].wallet = item.wallet
                            /\ attempt[c].message = item.nonce
        \/ nextNonce > item.nonce + 1

\* C20: a connect rejected for its signature (made by another wallet's key,
\* or malformed) or for its nonce leaves the nonce store unchanged, so the
\* nonce it presented can still admit a later, correctly signed connect.
C20_RejectionKeepsNonce ==
    /\ [](\A o \in Conns : RejectedSignature(o) => RejectedNonceKept(o))
    /\ [][\A c \in Conns :
             (attempt'[c] # attempt[c] /\ attempt'[c].pc = "done"
                 /\ attempt'[c].status = 401)
                   => nonceTable' = nonceTable]_vars

C20_Witness ==
    \E o \in Conns, c \in Conns :
        /\ RejectedSignature(o) /\ ~attempt[o].replay
        /\ attempt[o].signature.kind = "sig"
        /\ attempt[o].signature.signer # attempt[o].wallet
        /\ Admitted(c)
        /\ attempt[c].wallet = attempt[o].wallet
        /\ attempt[c].message = attempt[o].message

----------------------------------------------------------------------------
(* Claims about the fan-out of Engine A *)

\* The connections that hold a registry row for the topic.
PriceSubscribers(token) ==
    {c \in Conns : \E r \in priceTable : r.connectionId = c /\ r.token = token}
BalanceSubscribers(wallet) ==
    {c \in Conns : \E r \in balanceTable : r.connectionId = c /\ r.wallet = wallet}

Sends(pass, c) == Len(pass.outcome[c])
Completed(pass) ==
    pass.pc = "settled" \/ (pass.pc = "done" /\ pass.status = 200)

\* No connection is sent to twice nor without being a target, and once the
\* pass has completed every target has been sent to.
ExactlyOncePerTarget(pass) ==
    \A c \in Conns :
        /\ Sends(pass, c) <= 1
        /\ Sends(pass, c) = 1 => c \in pass.targets
        /\ (Completed(pass) /\ c \in pass.targets) => Sends(pass, c) = 1

\* The targets of a pass are the connections that hold a row for its topic
\* at the step that resolves them; a pass that resolves none has none.
ResolvesSubscribers ==
    /\ (worker.pass.pc = "resolve" /\ worker'.pass.pc = "send")
          => worker'.pass.targets = PriceSubscribers(worker'.pass.topic)
    /\ (worker.pass.pc = "resolve" /\ worker' # worker /\ worker'.pass.pc # "send")
          => PriceSubscribers(worker.batch[worker.i].body.message.token) = {}
    /\ (balancePass.pc # "send" /\ balancePass'.pc = "send")
          => balancePass'.targets = BalanceSubscribers(balancePass'.topic)
    /\ (balancePass.pc # "send" /\ balancePass' # balancePass
            /\ balancePass'.pc = "done" /\ balancePass'.status = 200)
          => BalanceSubscribers(balancePass'.topic) = {}

\* C1: a fan-out pass of the queue worker (record without connection ids)
\* and of the balance webhook attempts exactly one send to every connection
\* that holds a registry row for the topic when the pass resolves its
\* targets, and none to any other connection.
C1_FanoutReachesExactlySubscribers ==
    /\ [](ExactlyOncePerTarget(worker.pass) /\ ExactlyOncePerTarget(balancePass))
    /\ [][ResolvesSubscribers]_vars

C1_Witness ==
    /\ worker.pass.pc = "settled"
    /\ worker.pass.targets = {"c1"}
    /\ worker.pass.outcome["c1"] = <<"ok">>
    /\ worker.pass.outcome["c2"] = <<>>
    /\ "c2" \in PriceSubscribers("T2")
    /\ balancePass.pc = "done"
    /\ balancePass.targets = {"c1", "c2"}
    /\ balancePass.outcome["c1"] = <<"ok">>
    /\ balancePass.outcome["c2"] = <<"ok">>

Referenced(c) ==
    \/ \E r \in priceTable : r.connectionId = c
    \/ \E r \in balanceTable : r.connectionId = c

\* C2: once a fan-out pass in which the send to a connection failed with
\* 410 (gone) has completed, the registry holds no row referencing that
\* connection.
C2_PrunedAfterGone ==
    \A c \in Conns :
        /\ (Completed(worker.pass) /\ worker.pass.outcome[c] = <<"gone">>)
              => ~Referenced(c)
        /\ (Completed(balancePass) /\ balancePass.outcome[c] = <<"gone">>)
              => ~Referenced(c)

Failed(pass) == {c \in Conns : pass.outcome[c] \in {<<"gone">>, <<"error">>}}

\* No recipient is sent to twice, and a completed pass has sent once to
\* every resolved recipient, whatever the outcomes of the other sends.
OneAttemptEach(pass) ==
    /\ \A c \in Conns : Sends(pass, c) <= 1
    /\ Completed(pass) => \A c \in pass.targets : Sends(pass, c) = 1

\* A step in which a send fails takes only that send off the pending ones
\* and leaves the pass sending.
FailureIsolated(before, after) ==
    \A c \in Failed(after) \ Failed(before) :
        /\ after.pc = "send"
        /\ after.pending = before.pending \ {c}
        /\ \A d \in Conns \ {c} : after.outcome[d] = before.outcome[d]

\* C14: within one fan-out pass of Engine A every resolved recipient gets
\* exactly one send attempt, whether or not sends to other recipients fail
\* (410 or another error); a failed send is not retried within the pass and
\* does not abort the sends to the other recipients.
C14_FailureIsolation ==
    /\ [](OneAttemptEach(worker.pass) /\ OneAttemptEach(balancePass))
    /\ [][/\ FailureIsolated(worker.pass, worker'.pass)
          /\ FailureIsolated(balancePass, balancePass')]_vars

C14_Witness ==
    /\ worker.pass.pc = "settled"
    /\ worker.pass.targets = {"c1", "c2"}
    /\ worker.pass.outcome["c1"] = <<"gone">>
    /\ worker.pass.outcome["c2"] = <<"ok">>
    /\ balancePass.pc = "done"
    /\ balancePass.targets = {"c1", "c2"}
    /\ balancePass.outcome["c1"] = <<"gone">>
    /\ balancePass.outcome["c2"] = <<"error">>

----------------------------------------------------------------------------
(* Claims about the two engines *)

Delivered(pass) == {c \in Conns : pass.outcome[c] = <<"ok">>}
Transient(pass) == {c \in Conns : pass.outcome[c] = <<"error">>}
SeqSet(q) == {q[k] : k \in 1 .. Len(q)}

\* A completed pass of Engine A and a completed broadcast of Engine B on the
\* same topic, begun with the same subscribers of which the same are dead.
SameStart(a, b) ==
    /\ a.pc = "settled"
    /\ b.pc = "done" /\ b.status = 200
    /\ a.topic = b.token
    /\ a.targets = SeqSet(b.before)
    /\ a.targets \ alive = a.targets \ edgeOpen
    /\ Transient(a) = {}

\* C11: after one broadcast through each engine from the same subscribers
\* of a topic with the same dead connections, both engines have delivered
\* to the same connections, and neither the registry rows of the topic nor
\* the room's connection set contain a dead connection.
C11_EngineEquivalence ==
    \A p \in PubIds :
        LET a == worker.pass
            b == publish[p]
            dead == a.targets \ alive
        IN SameStart(a, b) =>
              /\ Delivered(a) = b.sent
              /\ ResolvePrice(priceTable, a.topic) \cap dead = {}
              /\ IdSet(room[b.token].connections) \cap dead = {}

----------------------------------------------------------------------------
(* Claims about Engine B *)

Broadcasting(p) == publish[p].pc = "loop"
Broadcast(p) == publish[p].pc = "done" /\ publish[p].status = 200
IsPrefix(q, r) == Len(q) <= Len(r) /\ \A k \in 1 .. Len(q) : q[k] = r[k]

\* The broadcast visits the sockets of the connection set as it was when the
\* loop began, each once and in order, and all of them before it returns;
\* every socket visited was either sent to or recorded as failed.
VisitsEverySocket(p) ==
    LET b == publish[p] IN
    /\ IsPrefix(b.iterated, b.before)
    /\ Broadcast(p) => b.iterated = b.before
    /\ b.sent \cup SeqSet(b.closedConnections) = SeqSet(b.iterated)
    /\ b.sent \cap SeqSet(b.closedConnections) = {}

\* A connection removed by one broadcast is never attempted by another one
\* after it: if another broadcast has visited it, that was a successful send.
RemovedNotAttempted(p, q) ==
    \A c \in SeqSet(publish[p].closedConnections) :
        c \in SeqSet(publish[q].iterated) => c \in publish[q].sent

\* The step in which a broadcast returns leaves in the connection set the
\* connections it held when the loop began minus those whose send threw.
ReturnRemovesFailed(p) ==
    (Broadcasting(p) /\ publish'[p].pc = "done") =>
        IdSet(room'[publish[p].token].connections)
            = SeqSet(publish[p].before) \ SeqSet(publish[p].closedConnections)

\* Every send of a broadcast goes to a socket that is in the connection set.
SendsToMembers(p) ==
    \A c \in SeqSet(publish'[p].iterated) \ SeqSet(publish[p].iterated) :
        c \in IdSet(room[publish'[p].token].connections)

\* C12: a broadcast of a room attempts one send to every socket of the
\* room's connection set; when it returns the set is the previous set minus
\* exactly the connections whose send raised an error; a later broadcast
\* does not attempt the removed ones.
C12_RoomDeliversAndPrunes ==
    /\ [](\A p \in PubIds, q \in PubIds :
             VisitsEverySocket(p) /\ (p # q => RemovedNotAttempted(p, q)))
    /\ [][\A p \in PubIds : ReturnRemovesFailed(p) /\ SendsToMembers(p)]_vars

C12_Witness ==
    /\ Broadcast("p1") /\ Broadcast("p2")
    /\ publish["p1"].token = publish["p2"].token
    /\ Len(publish["p1"].before) = 3
    /\ Len(publish["p1"].closedConnections) = 1
    /\ publish["p2"].iterated # <<>>
    /\ SeqSet(publish["p2"].iterated) = publish["p1"].sent

Position(log, p) == CHOOSE k \in 1 .. Len(log) : log[k].pub = p
Got(c, p) == \E k \in 1 .. Len(received[c]) : received[c][k].pub = p

\* Every two sockets that have received both messages have received them in
\* the same order.
SameOrder ==
    \A c \in Conns, d \in Conns, p \in PubIds, q \in PubIds :
        (p # q /\ Got(c, p) /\ Got(c, q) /\ Got(d, p) /\ Got(d, q)) =>
            ((Position(received[c], p) < Position(received[c], q))
                <=> (Position(received[d], p) < Position(received[d], q)))

\* No two broadcasts of one room are in their send loops at once.
LoopsApart ==
    \A p \in PubIds, q \in PubIds :
        (p # q /\ Broadcasting(p) /\ Broadcasting(q))
            => publish[p].token # publish[q].token

\* While a broadcast stays in its loop, no step changes the connection set
\* it iterates.
SetStableInLoop ==
    \A p \in PubIds :
        (Broadcasting(p) /\ publish'[p].pc = "loop") =>
            room'[publish[p].token].connections = room[publish[p].token].connections

\* C13: the send loops of two publishes to the same room never interleave:
\* sockets that receive both messages receive them in the same order, and
\* the connection set is not changed while a publish iterates it.
C13_RoomSerializesPublishes ==
    /\ [](SameOrder /\ LoopsApart)
    /\ [][SetStableInLoop]_vars

C13_Witness ==
    /\ Broadcast("p1") /\ Broadcast("p2")
    /\ publish["p1"].token = publish["p2"].token
    /\ \E c \in Conns, d \in Conns :
          /\ c # d
          /\ Got(c, "p1") /\ Got(c, "p2") /\ Got(d, "p1") /\ Got(d, "p2")
          /\ Position(received[c], "p2") < Position(received[c], "p1")

----------------------------------------------------------------------------
(* Claims about the registry *)

StoredSubscribe(call) == call.op = "subscribePrice" /\ call.stored

PairRows(c, token) ==
    {r \in priceTable : r.connectionId = c /\ r.token = token}

\* C6: a connection that has subscribed to price topic T1 and then to a
\* different price topic T2 is a subscriber of both.
C6_ManyToMany ==
    (/\ StoredSubscribe(regLog.prev) /\ StoredSubscribe(regLog.last)
     /\ regLog.prev.conn = regLog.last.conn
     /\ regLog.prev.topic # regLog.last.topic)
        => /\ regLog.last.conn \in ResolvePrice(priceTable, regLog.prev.topic)
           /\ regLog.last.conn \in ResolvePrice(priceTable, regLog.last.topic)

\* C7: after a connection has subscribed to the same price topic twice in a
\* row, the registry holds exactly one row for the pair, and its expiry is
\* the time of the later subscribe plus 3600 seconds.
C7_SubscribeIdempotent ==
    (/\ StoredSubscribe(regLog.prev) /\ StoredSubscribe(regLog.last)
     /\ regLog.prev.conn = regLog.last.conn
     /\ regLog.prev.topic = regLog.last.topic)
        => /\ Cardinality(PairRows(regLog.last.conn, regLog.last.topic)) = 1
           /\ \A r \in PairRows(regLog.last.conn, regLog.last.topic) :
                 r.ttl = regLog.last.at + 3600

C7_Witness ==
    /\ StoredSubscribe(regLog.prev) /\ StoredSubscribe(regLog.last)
    /\ regLog.prev.conn = regLog.last.conn
    /\ regLog.prev.topic = regLog.last.topic
    /\ regLog.prev.at < regLog.last.at
    /\ \E r \in priceTable : r.connectionId = regLog.last.conn /\ r.ttl = 7200

RowsOf(rows, c) == {r \in rows : r.connectionId = c}

\* The step in which the $disconnect call of connection c runs.
DisconnectStep(c) == c \in closed /\ c \notin closed'

\* C15: the $disconnect call of connection c answers 200 whether or not c
\* has rows; it leaves the rows of every other connection in both tables
\* unchanged; each table whose Delete did not throw holds no row of c
\* afterwards, so without a store error neither table holds one, and a
\* throwing Delete on the price table does not keep c's balance row.
C15_DisconnectCleanup ==
    [][\A c \in Conns : DisconnectStep(c) =>
          /\ regLog'.last.op = "disconnect" /\ regLog'.last.conn = c
          /\ regLog'.last.status = 200
          /\ "price" \notin regLog'.last.faults
                => RowsOf(priceTable', c) = {}
          /\ "balance" \notin regLog'.last.faults
                => RowsOf(balanceTable', c) = {}
          /\ \A o \in Conns \ {c} :
                /\ RowsOf(priceTable', o) = RowsOf(priceTable, o)
                /\ RowsOf(balanceTable', o) = RowsOf(balanceTable, o)]_vars

C15_Witness ==
    /\ regLog.last.op = "disconnect" /\ regLog.last.faults = {"price"}
    /\ RowsOf(priceTable, regLog.last.conn) # {}
    /\ RowsOf(balanceTable, regLog.last.conn) = {}
    /\ regLog.prev.op = "disconnect" /\ regLog.prev.faults = {}
    /\ ~Referenced(regLog.prev.conn)
    /\ \E o \in alive : RowsOf(priceTable, o) # {} /\ RowsOf(balanceTable, o) # {}

\* Both handlers of connection c have completed: its transport is closed,
\* its $disconnect call has run and no subscribe of it is in flight.
BothCompleted(c) ==
    /\ c \notin alive /\ c \notin closed
    /\ subscribing[c].pc = "idle"

\* C16: once a subscribe handler and the disconnect handler of the same
\* connection have both completed, in whatever order their store calls
\* interleaved, the registry holds no subscription row of the connection.
C16_NoSubscribeDisconnectRace ==
    \A c \in Conns : BothCompleted(c) => ~Referenced(c)

\* C17: with subscribes and disconnects of distinct connections
\* interleaving, the subscribers of a topic are exactly the connections
\* whose own last completed call was a subscribe to it, and a step changes
\* the rows of a connection only when it completes a call of that connection.
C17_IndependentRows ==
    /\ [](\A t \in Tokens :
             ResolvePrice(priceTable, t)
                 = {c \in Conns : lastOp[c] = [op |-> "subscribePrice", topic |-> t]})
    /\ [][\A c \in Conns :
             RowsOf(priceTable', c) # RowsOf(priceTable, c)
                 => lastOp'[c] # lastOp[c]]_vars

C17_Witness ==
    /\ lastOp["c1"] = [op |-> "disconnect", topic |-> NoTopic]
    /\ lastOp["c2"] = [op |-> "subscribePrice", topic |-> "T1"]
    /\ lastOp["c3"] = [op |-> "subscribePrice", topic |-> "T1"]
    /\ subscribing["c3"].pc = "put"
    /\ ResolvePrice(priceTable, "T1") = {"c2", "c3"}

----------------------------------------------------------------------------
(* Claims about the sweeper *)

\* C8: after a sweep pass without store faults and without concurrent
\* writes, each of the three tables holds exactly the rows it held when the
\* pass began whose expiry is not below the pass's now.
C8_SweeperInvariant ==
    (sweeper.pc = "done" /\ ~sweeper.faulted) =>
        \A table \in {"price", "balance", "nonce"} :
            Rows(table) = {r \in sweeper.before[table] : r.ttl >= sweeper.now}

C8_Witness ==
    /\ sweeper.pc = "done"
    /\ Cardinality(sweeper.before["price"]) = 3
    /\ Cardinality(priceTable) = 1
    /\ \E r \in priceTable : r.ttl = sweeper.now
    /\ sweeper.before["nonce"] # {} /\ nonceTable = {}
    /\ sweeper.before["balance"] # {} /\ balanceTable = sweeper.before["balance"]

\* C9: no Delete of the sweeper removes a row whose expiry, at the moment
\* of the Delete, is not below the sweep's now.
C9_SweeperSparesRefreshedRows ==
    [][(sweeper.pc = "delete" /\ sweeper' # sweeper) =>
          \A r \in (priceTable \ priceTable') \cup (balanceTable \ balanceTable')
                      \cup (nonceTable \ nonceTable') :
              r.ttl < sweeper.now]_vars

----------------------------------------------------------------------------
(* Claims about the publisher *)

----------------------------------------------------------------------------
(* The nonce issuer under a moving clock *)

\* Nonces issued at different times, presented by one client that signs
\* with the key of the wallet it names.
NextNonce ==
    \/ Tick
    \/ \E w \in Wallets, putOk \in BOOLEAN : GenerateNonce(w, putOk)
    \/ \E w \in Wallets, m \in 1 .. MaxNonces : ConnectStart("c1", w, Sign(w, m), m)
    \/ \E getOk \in BOOLEAN : ConnectGet("c1", getOk)
    \/ \E deleteOk \in BOOLEAN : ConnectDelete("c1", deleteOk)

SpecNonce == Init /\ [][NextNonce]_vars

NoncesOf(rows, w) == {i \in rows : i.wallet = w}

\* A step of the issuer: the nonce counter moves.
IssueStep == nextNonce' = nextNonce + 1

\* What the issuer's Put leaves in the store when it issues for wallet w.
IssuedFor(w) ==
    /\ NoncesOf(nonceTable', w) =
          {[wallet |-> w, nonce |-> nextNonce, ttl |-> (nowMs \div 1000) + 600]}
    /\ \A o \in Wallets \ {w} : NoncesOf(nonceTable', o) = NoncesOf(nonceTable, o)

\* A finished connect that presented a nonce issued before the one its
\* wallet had in the store.
PresentedEarlier(c) ==
    /\ Done(c)
    /\ attempt[c].found # {}
    /\ attempt[c].message # NoMessage
    /\ \A r \in attempt[c].found : attempt[c].message < r.nonce

\* C21: the store holds at most one nonce per wallet; an issuance for a
\* wallet replaces that wallet's nonce by the new one, expiring 600 seconds
\* after the issue time, and leaves every other wallet's nonce as it was (a
\* Put that throws leaves the store as it was); no other step adds a nonce;
\* and a connect presenting an earlier-issued nonce than the one stored for
\* its wallet is rejected as invalid-or-expired.
C21_OneNoncePerWallet ==
    /\ [](\A w \in Wallets : Cardinality(NoncesOf(nonceTable, w)) <= 1)
    /\ [](\A c \in Conns : PresentedEarlier(c) => RejectedNonce(c))
    /\ [][/\ IssueStep =>
                \/ nonceTable' = nonceTable
                \/ \E w \in Wallets : IssuedFor(w)
          /\ ~IssueStep => nonceTable' \subseteq nonceTable]_vars

\* Wallet W1 was issued nonce 1 and later, at a later time, nonce 2; the
\* other wallet's nonce is absent; a connect presenting nonce 1 for W1 has
\* been rejected.
C21_Witness ==
    /\ nonceTable = {[wallet |-> "W1", nonce |-> 2,
                      ttl |-> ((StartMs + TickMs) \div 1000) + 600]}
    /\ PresentedEarlier("c1")
    /\ attempt["c1"].wallet = "W1"
    /\ attempt["c1"].message = 1
    /\ RejectedNonce("c1")

----------------------------------------------------------------------------
(* Engine A fan-out over rows that outlive their expiry *)

\* Subscriptions, the clock, and publishes of token T1 and of wallet W1; no
\* connection closes and no sweep runs, so a row stays until it is replaced.
NextExpiry ==
    \/ Tick
    \/ \E c \in FanConns : SubscribePrice(c, "T1", TRUE) /\ UNCHANGED histVars
    \/ \E c \in FanConns : SubscribeBalance(c, "W1", TRUE) /\ UNCHANGED histVars
    \/ \E p \in Prices, ts \in Timestamps :
          /\ HeliusPrice(TRUE, TRUE, TRUE, PriceMessage("T1", p, ts), FALSE,
                         "notcalled", TRUE, TRUE)
          /\ UNCHANGED histVars
    \/ WorkerInvoke
    \/ WorkerResolve(TRUE)
    \/ \E c \in FanConns : WorkerSend(c)
    \/ WorkerSettle
    \/ WorkerNext
    \/ BalanceStart(TRUE, TRUE, "W1", TRUE)
    \/ \E c \in FanConns : BalanceSend(c)
    \/ BalanceReturn

SpecExpiry == InitLive /\ [][NextExpiry]_vars

\* This step attempts a send of the pass to connection c.
SendStep(before, after, c) == Sends(after, c) > Sends(before, c)

\* C22: the fan-out never attempts a send to a connection whose row for the
\* published topic has an expiry time earlier than now.
C22_ExpiredRowsSkipped ==
    [][\A c \in Conns :
          /\ SendStep(worker.pass, worker'.pass, c) =>
                \A r \in priceTable :
                   (r.connectionId = c /\ r.token = worker.pass.topic)
                      => ~(r.ttl < nowMs \div 1000)
          /\ SendStep(balancePass, balancePass', c) =>
                \A r \in balanceTable :
                   (r.connectionId = c /\ r.wallet = balancePass.topic)
                      => ~(r.ttl < nowMs \div 1000)]_vars

----------------------------------------------------------------------------
(* The sweeper against a store that may throw *)

\* Rows are written while no sweep runs; every Scan and every Delete of a
\* sweep may throw.
NextSweepFaults ==
    \/ \E c \in RegConns :
          /\ sweeper.pc = "idle"
          /\ SubscribePrice(c, "T1", TRUE) /\ UNCHANGED histVars
    \/ sweeper.pc = "idle" /\ GenerateNonce("W1", TRUE)
    \/ Tick
    \/ SweepStart
    \/ \E scanOk \in BOOLEAN : SweepScan(scanOk)
    \/ \E deleteOk \in BOOLEAN : SweepDelete(deleteOk)
    \/ SweepReturn

SpecSweepFaults == InitLive /\ [][NextSweepFaults]_vars

\* The rows of a table that the finished invocation has removed.
Swept(table) == sweeper.before[table] \ Rows(table)

\* C23: when a sweep returns, in every table whose Scans all answered, each
\* row that was expired when the sweep began has been deleted unless its own
\* Delete threw, whatever happened to other rows and to other tables; and
\* the count kept for each table is the number of rows deleted from it.
C23_SweepIsolatesAndCounts ==
    sweeper.pc = "done" =>
       \A k \in 1 .. 3 :
          LET table == SweepTables[k] IN
          /\ sweeper.deletedCount[k] = Cardinality(Swept(table))
          /\ table \notin sweeper.scanFailed =>
                \A r \in sweeper.before[table] :
                   r.ttl < sweeper.now =>
                      \/ r \notin Rows(table)
                      \/ [table |-> table, key |-> r[KeyOf(table)]]
                            \in sweeper.deleteFailed

\* A sweep has returned in which the Delete of c1's expired price row threw,
\* c2's expired price row was deleted after it, and the expired nonce was
\* deleted from the last table.
C23_Witness ==
    /\ sweeper.pc = "done"
    /\ sweeper.deleteFailed = {[table |-> "price", key |-> "c1"]}
    /\ \E r \in priceTable : r.connectionId = "c1" /\ r.ttl < sweeper.now
    /\ \E r \in Swept("price") : r.connectionId = "c2"
    /\ sweeper.deletedCount = <<1, 0, 1>>
    /\ Swept("nonce") # {}

----------------------------------------------------------------------------
(* The sweeper as the backstop for vanished connections *)

\* Connections subscribe and refresh and nonces are issued (and never
\* presented) between the sweeps; a connection may vanish at any time,
\* without a $disconnect; the cron keeps invoking the sweeper.
NextBackstop ==
    \/ \E c \in RegConns :
          /\ sweeper.pc = "idle"
          /\ SubscribePrice(c, "T1", TRUE) /\ UNCHANGED histVars
    \/ sweeper.pc = "idle" /\ GenerateNonce("W1", TRUE)
    \/ \E c \in RegConns : Close(c, FALSE)
    \/ Tick
    \/ SweepStart
    \/ SweepScan(TRUE)
    \/ SweepDelete(TRUE)
    \/ SweepReturn

\* The clock advances; the schedule rate(5 minutes) starts the handler again
\* after every return, and an invocation whose store calls answer runs to
\* its end.
SweepRuns ==
    /\ WF_vars(Tick)
    /\ WF_vars(SweepStart)
    /\ WF_vars(SweepScan(TRUE))
    /\ WF_vars(SweepDelete(TRUE))
    /\ WF_vars(SweepReturn)

SpecBackstop == InitLive /\ [][NextBackstop]_vars /\ SweepRuns

\* The last reading of the clock.
FinalSeconds == (StartMs + MaxTicks * TickMs) \div 1000

\* An item that nothing but the sweeper will remove: the row of a
\* connection that has vanished, or a nonce (none is presented here); and
\* one whose expiry passes within the modelled period.
Abandoned ==
    {r \in priceTable : r.connectionId \notin alive} \cup nonceTable
Expiring == {r \in Abandoned : r.ttl < FinalSeconds}

----------------------------------------------------------------------------
(* Claims about what Engine B delivers *)

\* The publish messages socket c has been sent.
Deliveries(c) == {k \in 1 .. Len(received[c]) : received[c][k].pub # NoPublish}

\* C30: a message is delivered unmodified: what a subscriber receives from
\* a publish has the type, topic key, payload and timestamp of the message
\* the publisher handed to the engine.
C30_DeliveredUnmodified ==
    \A c \in Conns : \A k \in Deliveries(c) :
       LET handed == publish[received[c][k].pub].message
           got == received[c][k].message
       IN /\ got.type = handed.type
          /\ got.token = handed.token
          /\ got.price = handed.price
          /\ got.timestamp = handed.timestamp

\* The publish has entered broadcast and found the connection set empty.
FoundEmpty(p) ==
    /\ publish[p].pc \in {"loop", "done"}
    /\ publish[p].token # NoTopic
    /\ publish[p].before = <<>>

\* C25: a publish to a room whose connection set is empty sends nothing,
\* records no failed connection, is answered success with a count of zero,
\* and leaves the connection set empty.
C25_EmptyRoomPublish ==
    /\ [](\A p \in PubIds : FoundEmpty(p) =>
             /\ publish[p].sent = {}
             /\ publish[p].iterated = <<>>
             /\ publish[p].closedConnections = <<>>
             /\ room[publish[p].token].connections = <<>>
                   \/ ~Broadcasting(p)
             /\ publish[p].pc = "done" =>
                   publish[p].status = 200 /\ publish[p].size = 0)
    /\ [][\A p \in PubIds :
             (Broadcasting(p) /\ FoundEmpty(p) /\ publish'[p] # publish[p]) =>
                /\ publish'[p].pc = "done"
                /\ publish'[p].status = 200
                /\ room'[publish[p].token].connections = <<>>
                /\ received' = received]_vars

\* A publish to the empty room of T1 has been answered success while the
\* room of T2 holds an open socket.
C25_Witness ==
    /\ FoundEmpty("p1")
    /\ Broadcast("p1")
    /\ publish["p1"].token = "T1"
    /\ publish["p1"].size = 0
    /\ room["T1"].connections = <<>>
    /\ room["T2"].connections # <<>>
    /\ edgeOpen # {}

----------------------------------------------------------------------------
(* Engine B with client messages and dormancy *)

ClientMessages == {Ping, Subscribe("T1")}

\* Sockets join the two rooms, send messages, drop and close; one publisher;
\* the clock; and the runtime putting idle rooms to sleep.
NextDormancy ==
    \/ Tick
    \/ \E c \in FanConns, t \in Tokens, cleanup \in BOOLEAN : RoomUpgrade(c, t, cleanup)
    \/ \E c \in FanConns : EdgeDrop(c)
    \/ \E c \in FanConns : RoomHandleClose(c)
    \/ \E c \in FanConns, data \in ClientMessages : ClientSend(c, data)
    \/ \E c \in FanConns : RoomHandleMessage(c)
    \/ \E t \in Tokens : RoomReactivate(t)
    \/ \E t \in Tokens, price \in Prices, ts \in Timestamps :
          EdgeBroadcast("p1", t, TRUE, TRUE, PriceMessage(t, price, ts))
    \/ RoomBroadcastBegin("p1")
    \/ RoomSend("p1")
    \/ RoomBroadcastReturn("p1")

SpecDormancy == Init /\ [][NextDormancy]_vars

\* C26: dormancy loses no live socket: the connection of a socket that is
\* open and stays open is never dropped from its room's connection set, so
\* every publish finds every accepted socket that has not closed, errored
\* or failed a send in the set.
C26_DormancyKeepsSockets ==
    [][\A t \in Tokens, c \in Conns :
          (c \in IdSet(room[t].connections) /\ c \in edgeOpen /\ c \in edgeOpen')
             => c \in IdSet(room'[t].connections)]_vars

\* The room handles a ping of socket c in this step.
PingStep(c) ==
    /\ inbox[c] # <<>>
    /\ Head(inbox[c]).type = "ping"
    /\ inbox'[c] = Tail(inbox[c])

\* C29: a ping from an accepted socket that is still open is answered with
\* exactly one pong to that socket and nothing to any other, and leaves
\* every connection set as it was apart from that connection's last-seen
\* time.
C29_PingAnswered ==
    [][\A c \in Conns :
          (PingStep(c) /\ c \in edgeOpen) =>
             /\ Len(received'[c]) = Len(received[c]) + 1
             /\ received'[c][Len(received'[c])].message.type = "pong"
             /\ \A o \in Conns \ {c} : received'[o] = received[o]
             /\ \A t \in Tokens :
                   /\ Ids(room'[t].connections) = Ids(room[t].connections)
                   /\ \A k \in 1 .. Len(room[t].connections) :
                         room[t].connections[k].id # c
                            => room'[t].connections[k] = room[t].connections[k]]_vars

----------------------------------------------------------------------------
(* The WebSocket API's routes and the client's unsubscribe actions *)

\* wsApi.route(...): the route keys of the WebSocket API.
Routes == {"$connect", "$disconnect", "subscribePrice", "subscribeBalance"}

\* WSMessage.action: the actions a client message can name.
WsActions == {"subscribePrice", "subscribeBalance", "unsubscribePrice",
              "unsubscribeBalance"}

\* A message of an open connection whose action matches no route key: no
\* handler is invoked and no table is touched.
Unrouted(c, action) ==
    /\ c \in alive
    /\ action \notin Routes
    /\ UNCHANGED <<nowMs, authVars, connVars, regVars, fanVars, sweepVars, callVars, edgeVars>>

\* Clients subscribe to prices and balances and send unsubscribe messages.
NextUnsubscribe ==
    \/ \E c \in RegConns, t \in Tokens :
          /\ SubscribePrice(c, t, TRUE)
          /\ LogCall("subscribePrice", c, t, TRUE, 200)
          /\ UNCHANGED <<webhook, lastOp>>
    \/ \E c \in RegConns, w \in Wallets :
          /\ SubscribeBalance(c, w, TRUE)
          /\ LogCall("subscribeBalance", c, w, TRUE, 200)
          /\ UNCHANGED <<webhook, lastOp>>
    \/ \E c \in RegConns, a \in WsActions, topic \in Tokens \cup Wallets :
          /\ Unrouted(c, a)
          /\ topic \in (IF a = "unsubscribePrice" THEN Tokens ELSE Wallets)
          /\ LogCall(a, c, topic, FALSE, 0)
          /\ UNCHANGED <<webhook, lastOp>>

SpecUnsubscribe == InitLive /\ [][NextUnsubscribe]_vars

\* C28: after an unsubscribe for a topic the connection's row for that
\* topic is absent, whether or not the connection was subscribed to it.
C28_UnsubscribeRemovesRow ==
    /\ regLog.last.op = "unsubscribePrice" =>
          regLog.last.conn \notin ResolvePrice(priceTable, regLog.last.topic)
    /\ regLog.last.op = "unsubscribeBalance" =>
          regLog.last.conn \notin ResolveBalance(balanceTable, regLog.last.topic)

----------------------------------------------------------------------------
(* The broadcast worker under failing sends and failing resolutions *)

\* Subscribers of T1 that may have gone, publishes of T1, and a worker
\* whose Query may throw.
NextRedelivery ==
    \/ \E c \in FanConns : SubscribePrice(c, "T1", TRUE) /\ UNCHANGED histVars
    \/ \E c \in FanConns : Close(c, FALSE)
    \/ \E p \in Prices, ts \in Timestamps :
          /\ HeliusPrice(TRUE, TRUE, TRUE, PriceMessage("T1", p, ts), FALSE,
                         "notcalled", TRUE, TRUE)
          /\ UNCHANGED histVars
    \/ WorkerInvoke
    \/ \E queryOk \in BOOLEAN : WorkerResolve(queryOk)
    \/ \E c \in FanConns : WorkerSend(c)
    \/ WorkerSettle
    \/ WorkerNext

SpecRedelivery == InitLive /\ [][NextRedelivery]_vars

\* This step of the worker's invocation puts messages back on the queue.
RedeliveryStep == worker.batch # <<>> /\ worker' # worker /\ queue' # queue

\* This step settles a send of the worker with a failure.
FailedSendStep ==
    \E c \in Conns :
       /\ SendStep(worker.pass, worker'.pass, c)
       /\ worker'.pass.outcome[c][Len(worker'.pass.outcome[c])] # "ok"

\* C27: a failed send does not end the worker's invocation and puts nothing
\* back on the queue; messages are put back only when the resolution of a
\* record's subscribers fails, and then the records of the invocation are
\* put back whole, unless they have been received 3 times; no message is
\* ever received more than 3 times.
C27_WholeRecordRedelivery ==
    /\ [](/\ \A k \in 1 .. Len(queue) : queue[k].receives < 3
          /\ \A k \in 1 .. Len(worker.batch) : worker.batch[k].receives <= 3)
    /\ [][/\ FailedSendStep =>
                /\ queue' = queue
                /\ worker'.batch = worker.batch
                /\ worker'.pass.pc = "send"
          /\ RedeliveryStep =>
                /\ worker.pass.pc = "resolve"
                /\ worker' = IdleWorker
                /\ queue' = queue \o SelectSeq(worker.batch,
                                               LAMBDA e : e.receives < 3)]_vars

\* A message received for the third time has been sent to a connection that
\* is gone, and the worker has gone on to settle the record.
C27_Witness ==
    /\ worker.batch # <<>>
    /\ worker.batch[worker.i].receives = 3
    /\ worker.pass.pc = "settled"
    /\ \E c \in FanConns : worker.pass.outcome[c] = <<"gone">>

----------------------------------------------------------------------------
(* Admission on the two engines.  A client is named by one id on both:     *)
(* attempt[c] is its $connect attempt at the WebSocket API, and c names    *)
(* its edge socket.                                                        *)

\* Clients fetch nonces, attempt $connect with a right or a wrong signature,
\* subscribe once connected, and open edge sockets on /ws/:token.
NextAdmission ==
    \/ \E w \in Wallets : GenerateNonce(w, TRUE)
    \/ \E c \in AuthConns, w \in Wallets, m \in 1 .. MaxNonces, signer \in Wallets :
          ConnectStart(c, w, Sign(signer, m), m)
    \/ \E c \in AuthConns : ConnectGet(c, TRUE)
    \/ \E c \in AuthConns : ConnectDelete(c, TRUE)
    \/ \E c \in AuthConns, t \in Tokens :
          SubscribePrice(c, t, TRUE) /\ UNCHANGED histVars
    \/ \E c \in AuthConns, t \in Tokens : RoomUpgrade(c, t, FALSE)

SpecAdmission == Init /\ [][NextAdmission]_vars

\* The client is a fan-out target: it was sent the connected
\* acknowledgment, is in a room's connection set, or has a subscription row.
FanoutTarget(c) ==
    \/ \E k \in 1 .. Len(received[c]) : received[c][k].message.type = "connected"
    \/ RoomsOf(c) # {}
    \/ \E r \in priceTable \cup balanceTable : r.connectionId = c

\* C31: only a client whose connection attempt passed the wallet
\* authentication (nonce and signature) is a fan-out target, on the
\* WebSocket API and on the edge endpoint alike.
C31_OnlyAdmittedTargets ==
    \A c \in Conns : FanoutTarget(c) => Admitted(c)

----------------------------------------------------------------------------
(* Claims about the rooms of different tokens *)

\* The token of the path the socket connected through.
PathOf(c) == received[c][1].path

\* A step of publish p touches only the room of p's token and the sockets
\* that connected through that token's path.
PublishStaysInRoom(p) ==
    publish'[p] # publish[p] =>
       /\ \A t \in Tokens \ {publish'[p].token} : room'[t] = room[t]
       /\ \A c \in Conns :
             received'[c] # received[c] =>
                received[c] # <<>> /\ PathOf(c) = publish'[p].token

\* C32: a message published to /broadcast/T is sent only to sockets that
\* connected through /ws/T; a publish to one token never sends to, and never
\* removes, a socket held by the room of another token.
C32_TopicIsolation ==
    /\ [](\A c \in Conns : \A k \in Deliveries(c) :
             publish[received[c][k].pub].token = PathOf(c))
    /\ [][\A p \in PubIds : PublishStaysInRoom(p)]_vars

\* A publish to T1 has returned after sending to the socket of T1's room,
\* while the room of T2 still holds a socket that is no longer open and that
\* was sent nothing but its welcome.
C32_Witness ==
    /\ Broadcast("p1")
    /\ publish["p1"].token = "T1"
    /\ publish["p1"].sent = {"c1"}
    /\ "c2" \in IdSet(room["T2"].connections)
    /\ "c2" \notin edgeOpen
    /\ Len(received["c2"]) = 1
    /\ PathOf("c1") = "T1"
    /\ PathOf("c2") = "T2"

----------------------------------------------------------------------------
(* Claims about nonces past their expiry *)

\* In this step the attempt's Get answers with a stored nonce whose expiry
\* has passed.
FindsExpired(c) ==
    /\ attempt[c].pc = "get"
    /\ attempt'[c].pc # "get"
    /\ attempt'[c].found # {}
    /\ \A r \in attempt'[c].found : r.ttl < nowMs \div 1000

\* C33: a connect attempt presenting a stored nonce whose expiry has passed
\* is rejected as invalid-or-expired, even while the row is still in the
\* store.
C33_ExpiredNonceRejected ==
    [][\A c \in Conns :
          FindsExpired(c) =>
             /\ attempt'[c].pc = "done"
             /\ attempt'[c].status = 401
             /\ attempt'[c].error = "Invalid or expired nonce"]_vars

----------------------------------------------------------------------------
(* Claims about the answer of the subscribe handler *)

\* This step is a subscribePrice call that returns a failure.
SubscribeFails ==
    /\ regLog' # regLog
    /\ regLog'.last.op = "subscribePrice"
    /\ regLog'.last.status = 400

\* C34: whenever the subscribePrice handler returns a failure, from an
\* invalid request, a failed Put or a failed confirmation send, the
\* registry is as it was before the call.
C34_FailureWritesNothing ==
    [][SubscribeFails => priceTable' = priceTable]_vars

\* ---------------------------------------------------------------------------
\* Events of several records: the poller hands the worker up to MaxRecords
\* messages in one event.
MaxRecords == 2

NextBatch ==
    \/ SubscribePrice("c1", "T1", TRUE) /\ UNCHANGED histVars
    \/ \E t \in Tokens, p \in Prices, ts \in Timestamps :
          /\ HeliusPrice(TRUE, TRUE, TRUE, PriceMessage(t, p, ts), FALSE,
                         "notcalled", TRUE, TRUE)
          /\ UNCHANGED histVars
    \/ \E n \in 1 .. MaxRecords : WorkerInvokeBatch(n)
    \/ \E queryOk \in BOOLEAN : WorkerResolve(queryOk)
    \/ \E c \in FanConns : WorkerSend(c)
    \/ WorkerSettle
    \/ WorkerNext

SpecBatch == InitLive /\ [][NextBatch]_vars

\* C35: while the worker handles an event, a step changes no record but the
\* one being processed and never goes back to an earlier record; when the
\* processing of record i throws, the invocation ends there (the records
\* after i get no fan-out in it) and every record of the event, the ones
\* before i included, is put back on the queue for redelivery unless it has
\* been received 3 times.
C35_FailingRecordStopsInvocation ==
    /\ [](worker.pass.pc \in {"send", "settled"} =>
             worker.pass.topic = worker.batch[worker.i].body.message.token)
    /\ [][/\ (worker.batch # <<>> /\ worker'.batch # <<>>) =>
                /\ worker'.i \in {worker.i, worker.i + 1}
                /\ Len(worker'.batch) = Len(worker.batch)
                /\ \A k \in 1 .. Len(worker.batch) :
                      k # worker.i => worker'.batch[k] = worker.batch[k]
          /\ RedeliveryStep =>
                /\ worker.pass.pc = "resolve"
                /\ worker' = IdleWorker
                /\ queue' = queue \o SelectSeq(worker.batch,
                                               LAMBDA e : e.receives < 3)]_vars

\* The second record of an event failed after the first had been fanned out,
\* and the first record, redelivered, is being sent to its recipients again.
C35_Witness ==
    /\ worker.batch # <<>>
    /\ worker.batch[worker.i].fanned >= 1
    /\ worker.batch[worker.i].receives >= 2
    /\ worker.pass.pc = "send"
    /\ \E c \in FanConns :
          /\ worker.pass.outcome[c] # <<>>
          /\ worker.pass.outcome[c][1] = "ok"

\* ---------------------------------------------------------------------------
\* The three publish entry points called with and without the bearer secret,
\* while a connection subscribes to a token and a wallet and a socket joins
\* the token's room.
NextUnauthorised ==
    \/ SubscribePrice("c1", "T1", TRUE) /\ UNCHANGED histVars
    \/ SubscribeBalance("c1", "W1", TRUE) /\ UNCHANGED histVars
    \/ RoomUpgrade("c1", "T1", FALSE)
    \/ \E authOk \in BOOLEAN, payloadOk \in BOOLEAN, p \in Prices,
          ts \in Timestamps, edgeConfigured \in BOOLEAN :
          /\ HeliusPrice(authOk, payloadOk, TRUE, PriceMessage("T1", p, ts),
                         edgeConfigured, "ok", TRUE, TRUE)
          /\ LogWebhook(authOk, payloadOk, TRUE, PriceMessage("T1", p, ts),
                        edgeConfigured, "ok", TRUE, TRUE)
          /\ UNCHANGED <<regLog, lastOp>>
    \/ WorkerInvoke
    \/ WorkerResolve(TRUE)
    \/ \E c \in FanConns : WorkerSend(c)
    \/ WorkerSettle
    \/ WorkerNext
    \/ \E authOk \in BOOLEAN, payloadOk \in BOOLEAN :
          BalanceStart(authOk, payloadOk, "W1", TRUE)
    \/ \E c \in FanConns : BalanceSend(c)
    \/ BalanceReturn
    \/ \E authOk \in BOOLEAN, payloadOk \in BOOLEAN, p \in Prices,
          ts \in Timestamps :
          EdgeBroadcast("p1", "T1", authOk, payloadOk, PriceMessage("T1", p, ts))
    \/ RoomBroadcastBegin("p1")
    \/ RoomSend("p1")
    \/ RoomBroadcastReturn("p1")

SpecUnauthorised == InitLive /\ [][NextUnauthorised]_vars

\* This step is a call of the price webhook without the bearer secret (the
\* time-series store, the edge worker and the queue answer).
UnauthorisedPrice ==
    \E payloadOk \in BOOLEAN, t \in Tokens, p \in Prices, ts \in Timestamps,
       edgeConfigured \in BOOLEAN :
       /\ HeliusPrice(FALSE, payloadOk, TRUE, PriceMessage(t, p, ts),
                      edgeConfigured, "ok", TRUE, TRUE)
       /\ LogWebhook(FALSE, payloadOk, TRUE, PriceMessage(t, p, ts),
                     edgeConfigured, "ok", TRUE, TRUE)

\* This step is a call of the balance webhook without the bearer secret.
UnauthorisedBalance ==
    \E payloadOk \in BOOLEAN, w \in Wallets, queryOk \in BOOLEAN :
       BalanceStart(FALSE, payloadOk, w, queryOk)

\* This step is a POST /broadcast/:token to the edge worker without the
\* bearer secret.
UnauthorisedEdge(q) ==
    \E t \in Tokens, payloadOk \in BOOLEAN, p \in Prices, ts \in Timestamps :
       EdgeBroadcast(q, t, FALSE, payloadOk, PriceMessage(t, p, ts))

\* The stores, the queue, the worker, the rooms and what the sockets were
\* sent are as they were.
NoEffect ==
    UNCHANGED <<nonceTable, priceTable, balanceTable, queue, worker, room,
                received, inbox>>

NextPersist ==
    \/ \E putOk \in BOOLEAN, t \in Tokens, p \in Prices, ts \in Timestamps,
          edgeConfigured \in BOOLEAN, edge \in {"ok", "notok", "threw"},
          sqs1Ok \in BOOLEAN, sqs2Ok \in BOOLEAN :
          /\ HeliusPrice(TRUE, TRUE, putOk, PriceMessage(t, p, ts),
                         edgeConfigured, edge, sqs1Ok, sqs2Ok)
          /\ LogWebhook(TRUE, TRUE, putOk, PriceMessage(t, p, ts),
                        edgeConfigured, edge, sqs1Ok, sqs2Ok)
          /\ UNCHANGED <<regLog, lastOp>>
    \/ WorkerInvoke
    \/ \E queryOk \in BOOLEAN : WorkerResolve(queryOk)

SpecPersist == InitLive /\ [][NextPersist]_vars

\* ---------------------------------------------------------------------------
\* This step is an authorised, valid call of the price webhook whose write to
\* the time-series store throws (the call is for the message and the edge
\* configuration that the step logs).
PutFails ==
    LET message == webhook'.message
        edgeConfigured == webhook'.edgeConfigured
    IN
    /\ message.token \in Tokens
    /\ \E edge \in {"ok", "notok", "threw"}, sqs1Ok \in BOOLEAN, sqs2Ok \in BOOLEAN :
          /\ HeliusPrice(TRUE, TRUE, FALSE, message, edgeConfigured, edge,
                         sqs1Ok, sqs2Ok)
          /\ LogWebhook(TRUE, TRUE, FALSE, message, edgeConfigured, edge,
                        sqs1Ok, sqs2Ok)

\* C37: the price webhook calls the edge worker or enqueues a tick only when
\* the tick's write to the time-series store has succeeded; when the write
\* fails the webhook answers 500, calls no edge worker and enqueues nothing.
C37_PersistBeforeBroadcast ==
    /\ []((webhook.queued # <<>> \/ webhook.edge # "notcalled") =>
             webhook.stored)
    /\ [][PutFails =>
             /\ webhook'.status = 500
             /\ ~webhook'.stored
             /\ webhook'.edge = "notcalled"
             /\ webhook'.queued = <<>>
             /\ queue' = queue
             /\ UNCHANGED <<worker, edgeVars>>]_vars

\* A tick was stored and enqueued and the worker has taken it; the next
\* call, with the edge engine configured, failed at the store.
C37_Witness ==
    /\ worker.batch # <<>>
    /\ webhook.status = 500
    /\ webhook.edgeConfigured
    /\ ~webhook.stored

\* ---------------------------------------------------------------------------
\* Sockets join the rooms, drop, and the rooms handle their close and error
\* events; then a tick is published to a room.
NextClose ==
    \/ \E c \in Conns, t \in Tokens : RoomUpgrade(c, t, FALSE)
    \/ \E c \in Conns : EdgeDrop(c)
    \/ \E c \in Conns : RoomHandleClose(c)
    \/ \E c \in Conns : RoomHandleError(c)
    \/ \E t \in Tokens, price \in Prices, ts \in Timestamps :
          EdgeBroadcast("p1", t, TRUE, TRUE, PriceMessage(t, price, ts))
    \/ RoomBroadcastBegin("p1")
    \/ RoomSend("p1")
    \/ RoomBroadcastReturn("p1")

SpecClose == Init /\ [][NextClose]_vars

\* The connection ids of a sequence of ids.
Visited(ids) == {ids[k] : k \in 1 .. Len(ids)}

\* This step is the room handling a close or an error event of socket c.
CloseStep(c) == RoomHandleClose(c) \/ RoomHandleError(c)

C39_AlarmPendingWhileOccupied ==
    \A t \in Tokens : room[t].connections # <<>> => room[t].alarm # NoAlarm

====
